---- MODULE Spec2Model ----
(***************************************************************************)
(* Model of the rover autonomy core:                                       *)
(*   - ObjectTracker / Track           (src/object_tracker.py)             *)
(*   - MapManagerLaptop                (src/mapping_system_laptop.py)      *)
(*   - DecisionSystem.decide           (src/decision_system.py)            *)
(*                                                                         *)
(* Numbers.  Python floats are modelled by integers in fixed units:        *)
(* lengths in millimetres, angles in milliradians, times in milliseconds,  *)
(* throttle/steering in thousandths.  An IoU is kept as the exact fraction *)
(* <<intersection, union>> and compared by cross multiplication.           *)
(* Python lists are 0-based, the sequences here are 1-based.               *)
(***************************************************************************)
EXTENDS Integers, Sequences, FiniteSets, TLC

VARIABLES
    \* ---- ObjectTracker ----
    tracks,          \* ObjectTracker.tracks: list of Track objects
    id_counter,      \* Track._id_counter (class attribute, shared by all trackers)
    out,             \* the list returned by the last ObjectTracker.update
    dets,            \* the detection batch passed to the last update
    committed,       \* the matches committed by the last update's greedy loop, in order
    op,              \* the operation that produced the current state
    \* ---- observers of the tracker (history, not program state) ----
    issued,          \* track ids issued so far, in creation order (process lifetime)
    reset_at,        \* Len(issued) at the last ObjectTracker.reset (0 when none)
    hist,            \* per active Track object: what an observer of update's matches counts
    purged,          \* Track objects removed from the active set by an update:
                     \* [uid, confirmed (its state before that update)]
    \* ---- MapManagerLaptop ----
    width_m, height_m, kinematics,
    x, y, theta,
    craters, crater_id_counter,
    pose_calls,      \* observer: update_pose calls since construction or the last reset_map
    last_visible,    \* the list passed to the last update_craters
    mode_arg,        \* the mode passed to the last set_kinematics
    pose_arg,        \* the (throttle, steering, dt) passed to the last update_pose
    \* ---- DecisionSystem ----
    dec_pose, dec_craters, decision,
    \* ---- threads inside MapManagerLaptop (the server's handlers take no lock) ----
    upd_pc,          \* the statement an update_pose in progress executes next ("idle": none)
    upd_loc,         \* its locals v, w, dt
    rst_pc,          \* the statement a reset_map in progress executes next ("idle": none)
    status,          \* the pose returned by the last get_status, and upd_pc when it ran
    epoch,           \* observer: the calls begun since no call was in progress
    \* ---- observer of DecisionSystem ----
    memo,            \* one earlier decide call: its arguments and the action it returned
    \* ---- observers of single calls ----
    iou_call,        \* compute_iou: the two boxes of a call, and what the call
                     \* returned for (box1, box2) and for (box2, box1)
    loop,            \* the greedy loop of an update in progress: the detections, the
                     \* tracker's iou_threshold, iou_matrix, the matches committed
    \* ---- the rest of the process ----
    other,           \* the tracks of a second ObjectTracker of the same process
    pcs,             \* the server's handlers: what a telemetry tick and a reset_map
                     \* handler in progress do next ("idle": not in progress)
    \* ---- observer of one Track object ----
    probe            \* the distances it was given, in arrival order, and the last
                     \* value of get_average_depth()

trackerVars == <<tracks, id_counter, out, dets, committed, issued, reset_at,
                 hist, purged>>
mapVars     == <<width_m, height_m, kinematics, x, y, theta, craters, crater_id_counter,
                 pose_calls, last_visible, mode_arg, pose_arg>>
decideVars  == <<dec_pose, dec_craters, decision>>
threadVars  == <<upd_pc, upd_loc, rst_pc, status, epoch>>
callVars    == <<memo, probe, iou_call, loop>>
sysVars     == <<other, pcs>>
stepVars    == <<threadVars, callVars, sysVars>>
vars        == <<trackerVars, mapVars, decideVars, stepVars, op>>

Max(a, b) == IF a >= b THEN a ELSE b
Min(a, b) == IF a <= b THEN a ELSE b
Abs(a)    == IF a < 0 THEN -a ELSE a

RECURSIVE SeqSum(_)
SeqSum(s) == IF s = <<>> THEN 0 ELSE Head(s) + SeqSum(Tail(s))

(***************************************************************************)
(*                         ObjectTracker                                   *)
(***************************************************************************)

\* Track states
TENTATIVE == 0
CONFIRMED == 1
LOST      == 2

\* The tracker's configuration as VisionSystem constructs it
\* (iou_threshold = 0.3 = 3/10).
IOU_THRESHOLD_NUM   == 3
IOU_THRESHOLD_DEN   == 10
min_hits_to_confirm == 3
max_misses_to_lose  == 5
DEPTH_HISTORY_LEN   == 10

iou_threshold == <<IOU_THRESHOLD_NUM, IOU_THRESHOLD_DEN>>

\* ---- bounds of the tracker model ----
\* Each specification explores update/reset sequences within three bounds:
\*   dets    : detections in one batch
\*   created : Track objects created in one run
\*   age     : sum over the active tracks of total_observations + misses
\* (an update whose result would pass a bound is not taken).
LifeDets     == 1
LifeCreated  == 1
LifeAge      == 8
IdsDets      == 1
IdsCreated   == 3
IdsAge       == 6
MatchDets    == 2
MatchCreated == 2
MatchAge     == 5

\* A detection without a 'label' key
NoLabel == "<none>"

\* det.get('label', 'crater')
DetLabel(det) == IF det.label = NoLabel THEN "crater" ELSE det.label

\* ---- IoU ----
\* An IoU value is the fraction <<n, d>> with d > 0; 0.0 is <<0, 1>>.
IouZero == <<0, 1>>
IouLT(a, b) == a[1] * b[2] < b[1] * a[2]
IouGE(a, b) == ~IouLT(a, b)

\* (mutant of compute_iou: the intersection is not taken off the union)
compute_iouSumUnion(box1, box2) ==
    LET x1 == Max(box1[1], box2[1])
        y1 == Max(box1[2], box2[2])
        x2 == Min(box1[3], box2[3])
        y2 == Min(box1[4], box2[4])
        inter_area == Max(0, x2 - x1) * Max(0, y2 - y1)
        box1_area  == (box1[3] - box1[1]) * (box1[4] - box1[2])
        box2_area  == (box2[3] - box2[1]) * (box2[4] - box2[2])
        union_area == box1_area + box2_area
    IN  IF union_area <= 0 THEN IouZero ELSE <<inter_area, union_area>>

compute_iou(box1, box2) ==
    LET x1 == Max(box1[1], box2[1])
        y1 == Max(box1[2], box2[2])
        x2 == Min(box1[3], box2[3])
        y2 == Min(box1[4], box2[4])
        inter_area == Max(0, x2 - x1) * Max(0, y2 - y1)
        box1_area  == (box1[3] - box1[1]) * (box1[4] - box1[2])
        box2_area  == (box2[3] - box2[1]) * (box2[4] - box2[2])
        union_area == box1_area + box2_area - inter_area
    IN  IF union_area <= 0 THEN IouZero ELSE <<inter_area, union_area>>

\* ---- compute_iou called on its own ----
\* bound: the largest box coordinate
IouCoord == 2
\* the boxes [x1, y1, x2, y2] with x1 <= x2 and y1 <= y2, the empty ones included
Boxes(n) == {<<x1, y1, x2, y2>> : x1 \in 0..n, y1 \in 0..n, x2 \in 0..n, y2 \in 0..n}
BoxesUpTo(n) == {b \in Boxes(n) : b[1] <= b[3] /\ b[2] <= b[4]}

NoIouCall == [box1 |-> <<0, 0, 0, 0>>, box2 |-> <<0, 0, 0, 0>>, done |-> FALSE,
              ab |-> IouZero, ba |-> IouZero]

\* the arguments of the call
InitIou(n) ==
    \E a \in BoxesUpTo(n) : \E b \in BoxesUpTo(n) :
        iou_call = [NoIouCall EXCEPT !.box1 = a, !.box2 = b]

\* compute_iou(box1, box2) and compute_iou(box2, box1)
IouCall ==
    /\ ~iou_call.done
    /\ iou_call' = [iou_call EXCEPT !.done = TRUE,
                                    !.ab = compute_iou(iou_call.box1, iou_call.box2),
                                    !.ba = compute_iou(iou_call.box2, iou_call.box1)]
    /\ op' = "compute_iou"

\* ---- Track ----
\* (mutant of TrackInit: the class counter is read but not incremented)
TrackInitNoIncrement(box, depth, label, counter, uid) ==
    [ counter |-> counter,
      track |-> [ track_id |-> counter,
                  box |-> box, depth |-> depth, label |-> label,
                  state |-> TENTATIVE,
                  hits |-> 1, misses |-> 0, total_observations |-> 1,
                  depth_history |-> <<depth>>,
                  uid |-> uid ] ]

\* Track.__init__: takes the next id from the class counter.  `uid` is the
\* identity of the Python object (never reused), it is not read by the code.
\* The result is the class counter after the call and the new object.
TrackInit(box, depth, label, counter, uid) ==
    LET c == counter + 1
    IN  [ counter |-> c,
          track |-> [ track_id |-> c,
                      box |-> box, depth |-> depth, label |-> label,
                      state |-> TENTATIVE,
                      hits |-> 1, misses |-> 0, total_observations |-> 1,
                      depth_history |-> <<depth>>,
                      uid |-> uid ] ]

\* (mutant of TrackUpdate: the newest reading is dropped when the history is full)
TrackUpdateDropNewest(t, box, depth) ==
    LET h1 == Append(t.depth_history, depth)
        h2 == IF Len(h1) > DEPTH_HISTORY_LEN THEN SubSeq(h1, 1, DEPTH_HISTORY_LEN) ELSE h1
    IN  [t EXCEPT !.box = box, !.depth = depth, !.depth_history = h2,
                  !.hits = t.hits + 1, !.misses = 0,
                  !.total_observations = t.total_observations + 1]

\* Track.update
TrackUpdate(t, box, depth) ==
    LET h1 == Append(t.depth_history, depth)
        h2 == IF Len(h1) > DEPTH_HISTORY_LEN THEN Tail(h1) ELSE h1
    IN  [t EXCEPT !.box = box, !.depth = depth, !.depth_history = h2,
                  !.hits = t.hits + 1, !.misses = 0,
                  !.total_observations = t.total_observations + 1]

\* (mutant of TrackMarkMissed: the hit streak survives a miss)
TrackMarkMissedKeepHits(t) == [t EXCEPT !.misses = t.misses + 1]

\* Track.mark_missed
TrackMarkMissed(t) == [t EXCEPT !.misses = t.misses + 1, !.hits = 0]

\* Track.get_average_depth: the mean, kept as the fraction <<sum, count>>
TrackAverageDepth(t) ==
    IF t.depth_history = <<>> THEN <<t.depth, 1>>
    ELSE <<SeqSum(t.depth_history), Len(t.depth_history)>>

\* ---- ObjectTracker.update ----

\* (mutant of MatrixEntry: the label test is dropped)
MatrixEntryAnyLabel(track, det) == compute_iou(track.box, det.box)

\* One cell of iou_matrix: np.zeros, filled only for same-label pairs
MatrixEntry(track, det) ==
    IF track.label = DetLabel(det) THEN compute_iou(track.box, det.box) ELSE IouZero

\* The function f as an explicit table (same value; evaluated once)
Table(f) == f @@ <<>>

\* iou_matrix is kept as numpy stores it: row-major, cell (t_idx, d_idx) of an
\* nT x nD matrix at flat position (t_idx - 1) * nD + d_idx.
RowOf(k, nD) == ((k - 1) \div nD) + 1
ColOf(k, nD) == ((k - 1) % nD) + 1

IouMatrix(trs, ds) ==
    LET nD == Len(ds)
    IN  Table([k \in 1..(Len(trs) * nD) |->
                  MatrixEntry(trs[RowOf(k, nD)], ds[ColOf(k, nD)])])

\* (mutant of ArgMaxFrom: the scan keeps the last maximum)
RECURSIVE ArgMaxFromLast(_, _, _)
ArgMaxFromLast(m, k, best) ==
    IF k > Len(m) THEN best
    ELSE ArgMaxFromLast(m, k + 1, IF IouLT(m[k], m[best]) THEN best ELSE k)

\* iou_matrix.argmax(): a scan in flat order that keeps the first maximum
RECURSIVE ArgMaxFrom(_, _, _)
ArgMaxFrom(m, k, best) ==
    IF k > Len(m) THEN best
    ELSE ArgMaxFrom(m, k + 1, IF IouLT(m[best], m[k]) THEN k ELSE best)

ArgMax(m) == ArgMaxFrom(m, 2, 1)

\* (mutant of ZeroRowCol: only the track's row is cleared)
ZeroRowOnly(m, nD, t_idx, d_idx) ==
    Table([k \in DOMAIN m |-> IF RowOf(k, nD) = t_idx THEN IouZero ELSE m[k]])

\* iou_matrix[t_idx, :] = 0; iou_matrix[:, d_idx] = 0
ZeroRowCol(m, nD, t_idx, d_idx) ==
    Table([k \in DOMAIN m |->
              IF RowOf(k, nD) = t_idx \/ ColOf(k, nD) = d_idx THEN IouZero ELSE m[k]])

\* The `while True` greedy loop; acc is the list of matches committed so far.
RECURSIVE GreedyLoop(_, _, _, _)
GreedyLoop(m, nD, thr, acc) ==
    LET k       == ArgMax(m)
        max_iou == m[k]
    IN  IF IouLT(max_iou, thr) THEN acc
        ELSE LET t_idx == RowOf(k, nD)
                 d_idx == ColOf(k, nD)
             IN  GreedyLoop(ZeroRowCol(m, nD, t_idx, d_idx), nD, thr,
                            Append(acc, [t_idx |-> t_idx, d_idx |-> d_idx,
                                         max_iou |-> max_iou]))

\* Step 1: `if self.tracks and detections:` build the matrix and match
GreedyMatch(trs, ds, thr) ==
    IF trs /= <<>> /\ ds /= <<>>
    THEN GreedyLoop(IouMatrix(trs, ds), Len(ds), thr, <<>>)
    ELSE <<>>

\* self.tracks[t_idx].update(det['box'], det['depth']) for every committed match
RECURSIVE ApplyMatches(_, _, _)
ApplyMatches(trs, ds, cm) ==
    IF cm = <<>> THEN trs
    ELSE LET c == Head(cm)
         IN  ApplyMatches([trs EXCEPT ![c.t_idx] =
                              TrackUpdate(@, ds[c.d_idx].box, ds[c.d_idx].depth)],
                          ds, Tail(cm))

\* (mutant of MarkMissed: the matched tracks are marked as well)
MarkMissedAll(trs, matched_track_ids) ==
    Table([t \in DOMAIN trs |-> TrackMarkMissed(trs[t])])

\* Step 2: mark unmatched tracks as missed
MarkMissed(trs, matched_track_ids) ==
    Table([t \in DOMAIN trs |->
              IF t \notin matched_track_ids THEN TrackMarkMissed(trs[t]) ELSE trs[t]])

\* (mutant of CreateTracks: the id is taken from the number of active tracks)
RECURSIVE CreateTracksByCount(_, _, _, _)
CreateTracksByCount(st, ds, matched_det_ids, d) ==
    IF d > Len(ds) THEN st
    ELSE IF d \in matched_det_ids THEN CreateTracksByCount(st, ds, matched_det_ids, d + 1)
    ELSE LET r == TrackInit(ds[d].box, ds[d].depth, DetLabel(ds[d]),
                            Len(st.tracks), st.uid)
         IN  CreateTracksByCount([tracks |-> Append(st.tracks, r.track),
                                  counter |-> r.counter,
                                  uid |-> st.uid + 1],
                                 ds, matched_det_ids, d + 1)

\* (mutant of CreateTracks: a track is created for every detection)
RECURSIVE CreateTracksForAll(_, _, _, _)
CreateTracksForAll(st, ds, matched_det_ids, d) ==
    IF d > Len(ds) THEN st
    ELSE LET r == TrackInit(ds[d].box, ds[d].depth, DetLabel(ds[d]), st.counter, st.uid)
         IN  CreateTracksForAll([tracks |-> Append(st.tracks, r.track),
                                 counter |-> r.counter,
                                 uid |-> st.uid + 1],
                                ds, matched_det_ids, d + 1)

\* Step 3: create a track for every unmatched detection, in batch order.
\* st = [tracks, counter, uid]: the list, Track._id_counter, the next object identity.
RECURSIVE CreateTracks(_, _, _, _)
CreateTracks(st, ds, matched_det_ids, d) ==
    IF d > Len(ds) THEN st
    ELSE IF d \in matched_det_ids THEN CreateTracks(st, ds, matched_det_ids, d + 1)
    ELSE LET r == TrackInit(ds[d].box, ds[d].depth, DetLabel(ds[d]), st.counter, st.uid)
         IN  CreateTracks([tracks |-> Append(st.tracks, r.track),
                           counter |-> r.counter,
                           uid |-> st.uid + 1],
                          ds, matched_det_ids, d + 1)

\* (mutant of TrackTransition: `>` instead of `>=` in the Lost test)
TrackTransitionLate(t, min_hits, max_misses) ==
    LET t1 == IF t.state = TENTATIVE /\ t.hits >= min_hits
              THEN [t EXCEPT !.state = CONFIRMED] ELSE t
    IN  IF t1.misses > max_misses THEN [t1 EXCEPT !.state = LOST] ELSE t1

\* (mutant of TrackTransition: a Confirmed track whose streak is broken is
\* Tentative again)
TrackTransitionDemoting(t, min_hits, max_misses) ==
    LET t1 == IF t.state = TENTATIVE /\ t.hits >= min_hits
              THEN [t EXCEPT !.state = CONFIRMED]
              ELSE IF t.state = CONFIRMED /\ t.hits = 0
                   THEN [t EXCEPT !.state = TENTATIVE] ELSE t
    IN  IF t1.misses >= max_misses THEN [t1 EXCEPT !.state = LOST] ELSE t1

\* Step 4: state transitions of one track (two independent `if`s)
TrackTransition(t, min_hits, max_misses) ==
    LET t1 == IF t.state = TENTATIVE /\ t.hits >= min_hits
              THEN [t EXCEPT !.state = CONFIRMED] ELSE t
    IN  IF t1.misses >= max_misses THEN [t1 EXCEPT !.state = LOST] ELSE t1

\* (mutant of RemoveLost: nothing is removed)
RemoveLostNone(trs) == trs

\* Step 5: self.tracks = [t for t in self.tracks if t.state != LOST]
RemoveLost(trs) == SelectSeq(trs, LAMBDA t : t.state /= LOST)

\* Step 6: the dict reported for one confirmed track
TrackDict(t) ==
    [ track_id |-> t.track_id, box |-> t.box, depth |-> TrackAverageDepth(t),
      label |-> t.label, observation_count |-> t.total_observations ]

\* (mutant of ConfirmedList: only the tracks matched in this frame are reported)
ConfirmedListMatchedOnly(trs) ==
    LET c == SelectSeq(trs, LAMBDA t : t.state = CONFIRMED /\ t.misses = 0)
    IN  [i \in DOMAIN c |-> TrackDict(c[i])]

ConfirmedList(trs) ==
    LET c == SelectSeq(trs, LAMBDA t : t.state = CONFIRMED)
    IN  [i \in DOMAIN c |-> TrackDict(c[i])]

MatchedTrackIds(cm) == {cm[i].t_idx : i \in DOMAIN cm}
MatchedDetIds(cm)   == {cm[i].d_idx : i \in DOMAIN cm}

\* Step 4 over the list
Transitions(trs) ==
    Table([i \in DOMAIN trs |->
              TrackTransition(trs[i], min_hits_to_confirm, max_misses_to_lose)])

\* (mutant of TrackerReset: the id numbering is not restarted)
TrackerResetKeepCounter == [tracks |-> <<>>, counter |-> id_counter]

\* ObjectTracker.reset
TrackerReset == [tracks |-> <<>>, counter |-> 0]

\* ---- the detection batches the tracker is driven with ----
\* Two boxes on one image row whose IoU is 3/5 (above the threshold); depth 0.7 m.
Det(b, l) == [box |-> b, depth |-> 700, label |-> l]
CraterA == Det(<<0, 0, 4, 4>>, "crater")
CraterB == Det(<<1, 0, 5, 4>>, NoLabel)
AlienA  == Det(<<0, 0, 4, 4>>, "alien")
\* one object, seen at two places
LifeDetections  == {CraterA, CraterB}
\* two objects of different label at the same place
IdsDetections   == {CraterA, AlienA}
MatchDetections == {CraterA, CraterB, AlienA}
Batches(universe, maxDets) == UNION {[1..n -> universe] : n \in 0..maxDets}

\* ---- what an observer of the matches counts for one Track object ----
\*   run    : consecutive updates, up to now, in which it was not matched
\*   streak : consecutive frames, up to now, in which it was detected
\*            (the creating frame is frame 1)
\*   best   : the longest streak so far
HistNew == [run |-> 0, streak |-> 1, best |-> 1]
HistMatched(h) == [run |-> 0, streak |-> h.streak + 1, best |-> Max(h.best, h.streak + 1)]
HistMissed(h)  == [run |-> h.run + 1, streak |-> 0, best |-> h.best]

Uids(trs) == {trs[i].uid : i \in DOMAIN trs}

InitTracker ==
    /\ tracks = <<>>
    /\ id_counter = 0
    /\ out = <<>>
    /\ dets = <<>>
    /\ committed = <<>>
    /\ issued = <<>>
    /\ reset_at = 0
    /\ hist = <<>>
    /\ purged = {}

\* tracker.update(detections)
UpdateWithin(universe, maxDets, maxCreated, maxAge) ==
    \E ds \in Batches(universe, maxDets) :
    \* (at most min(tracks, detections) detections are matched: a cheap test first)
    /\ Len(issued) + Len(ds) - Min(Len(ds), Len(tracks)) <= maxCreated
    /\ \E cm \in {GreedyMatch(tracks, ds, iou_threshold)} :
       \E s2 \in {MarkMissed(ApplyMatches(tracks, ds, cm), MatchedTrackIds(cm))} :
       \E s3 \in {CreateTracks([tracks |-> s2, counter |-> id_counter,
                                uid |-> Len(issued) + 1], ds, MatchedDetIds(cm), 1)} :
       \E s5 \in {RemoveLost(Transitions(s3.tracks))} :
           LET created == SubSeq(s3.tracks, Len(tracks) + 1, Len(s3.tracks))
               matchedUids == {tracks[cm[i].t_idx].uid : i \in DOMAIN cm}
               oldUids == Uids(tracks)
           IN  /\ Len(issued) + Len(created) <= maxCreated
               /\ SeqSum([i \in DOMAIN s5 |-> s5[i].total_observations + s5[i].misses]) <= maxAge
               /\ tracks' = s5
               /\ id_counter' = s3.counter
               /\ out' = ConfirmedList(s5)
               /\ dets' = ds
               /\ committed' = cm
               /\ issued' = issued \o [i \in DOMAIN created |-> created[i].track_id]
               /\ hist' = [u \in Uids(s5) |->
                               IF u \notin oldUids THEN HistNew
                               ELSE IF u \in matchedUids THEN HistMatched(hist[u])
                               ELSE HistMissed(hist[u])]
               /\ purged' = purged \cup
                      {[uid |-> s3.tracks[i].uid,
                        confirmed |-> i <= Len(tracks) /\ tracks[i].state = CONFIRMED] :
                       i \in {j \in DOMAIN s3.tracks : s3.tracks[j].uid \notin Uids(s5)}}
               /\ op' = "update"
               /\ UNCHANGED reset_at

\* tracker.reset()
Reset ==
    /\ tracks' = TrackerReset.tracks
    /\ id_counter' = TrackerReset.counter
    /\ reset_at' = Len(issued)
    /\ hist' = <<>>
    /\ op' = "reset"
    /\ UNCHANGED <<out, dets, committed, issued, purged>>

\* ---- a second ObjectTracker of the same process ----
\* Track._id_counter is a class attribute: both trackers take their ids from
\* it and the reset of either sets it to 0.
\* bounds, as for the tracker alone (created: by both trackers together)
TwoDets    == 1
TwoCreated == 2
TwoAge     == 3
\* other_tracker.update(detections)
OtherUpdate(universe, maxDets, maxCreated, maxAge) ==
    \E ds \in Batches(universe, maxDets) :
    /\ Len(issued) + Len(ds) - Min(Len(ds), Len(other)) <= maxCreated
    /\ \E cm \in {GreedyMatch(other, ds, iou_threshold)} :
       \E s2 \in {MarkMissed(ApplyMatches(other, ds, cm), MatchedTrackIds(cm))} :
       \E s3 \in {CreateTracks([tracks |-> s2, counter |-> id_counter,
                                uid |-> Len(issued) + 1], ds, MatchedDetIds(cm), 1)} :
       \E s5 \in {RemoveLost(Transitions(s3.tracks))} :
           LET created == SubSeq(s3.tracks, Len(other) + 1, Len(s3.tracks))
           IN  /\ Len(issued) + Len(created) <= maxCreated
               /\ SeqSum([i \in DOMAIN s5 |-> s5[i].total_observations + s5[i].misses]) <= maxAge
               /\ other' = s5
               /\ id_counter' = s3.counter
               /\ issued' = issued \o [i \in DOMAIN created |-> created[i].track_id]
               /\ op' = "other_update"
               /\ UNCHANGED <<tracks, out, dets, committed, reset_at, hist, purged, pcs>>

\* other_tracker.reset()
OtherReset ==
    /\ other' = TrackerReset.tracks
    /\ id_counter' = TrackerReset.counter
    /\ reset_at' = Len(issued)
    /\ op' = "other_reset"
    /\ UNCHANGED <<tracks, out, dets, committed, issued, hist, purged, pcs>>

\* ---- the greedy loop of update, one iteration at a time ----
\* bounds: tracks and detections of the update, iterations followed
GreedyTracks  == 2
GreedyDets    == 2
GreedyCommits == 3
\* iou_threshold as the constructor takes it: 0.0, or the configured 0.3
GreedyThresholds == {IouZero, iou_threshold}

NoLoop == [ds |-> <<>>, thr |-> iou_threshold, m |-> <<>>, commits |-> 0, pc |-> "none"]

\* a tracker (of either threshold) whose first update created its tracks from
\* the batch b0, at `while True` of its second update, called with ds
InitGreedy(maxTracks, maxDets) ==
    \E b0 \in Batches(MatchDetections, maxTracks) \ {<<>>} :
    \E ds \in Batches(MatchDetections, maxDets) \ {<<>>} :
    \E thr \in GreedyThresholds :
        /\ tracks = CreateTracks([tracks |-> <<>>, counter |-> 0, uid |-> 1], b0, {}, 1).tracks
        /\ id_counter = Len(b0)
        /\ out = <<>>
        /\ dets = b0
        /\ committed = <<>>
        /\ issued = [i \in 1..Len(b0) |-> i]
        /\ reset_at = 0
        /\ hist = [u \in 1..Len(b0) |-> HistNew]
        /\ purged = {}
        /\ loop = [ds |-> ds, thr |-> thr, m |-> IouMatrix(tracks, ds), commits |-> 0,
                   pc |-> "loop"]

\* one iteration that does not break (l.132-148): the matched track is
\* updated, the match is committed and its row and column are cleared
GreedyCommit(maxCommits) ==
    LET k     == ArgMax(loop.m)
        t_idx == RowOf(k, Len(loop.ds))
        d_idx == ColOf(k, Len(loop.ds))
        det   == loop.ds[d_idx]
    IN  /\ loop.pc = "loop"
        /\ ~IouLT(loop.m[k], loop.thr)
        /\ loop.commits < maxCommits
        /\ tracks' = [tracks EXCEPT ![t_idx] = TrackUpdate(@, det.box, det.depth)]
        /\ loop' = [loop EXCEPT !.m = ZeroRowCol(loop.m, Len(loop.ds), t_idx, d_idx),
                                !.commits = @ + 1]
        /\ op' = "greedy_commit"
        /\ UNCHANGED <<id_counter, out, dets, committed, issued, reset_at, hist, purged>>

\* `if max_iou < self.iou_threshold: break`
GreedyBreak ==
    /\ loop.pc = "loop"
    /\ IouLT(loop.m[ArgMax(loop.m)], loop.thr)
    /\ loop' = [loop EXCEPT !.pc = "done"]
    /\ op' = "greedy_break"
    /\ UNCHANGED trackerVars

\* ---- one Track object, fed one matched detection after the other ----
\* bound: the detections given to the track
HistoryObs == 12
\* the distances of the detections: 0.7 m and 0.9 m
HistoryDepths == {700, 900}
HistoryBox == <<0, 0, 4, 4>>

NoProbe == [seen |-> <<>>, reported |-> <<0, 1>>]

\* the tracker after its first update, which has created the track from one
\* detection
InitHistory ==
    \E d \in HistoryDepths :
        /\ tracks = <<TrackInit(HistoryBox, d, "crater", 0, 1).track>>
        /\ id_counter = 1
        /\ out = <<>>
        /\ dets = <<[box |-> HistoryBox, depth |-> d, label |-> "crater"]>>
        /\ committed = <<>>
        /\ issued = <<1>>
        /\ reset_at = 0
        /\ hist = (1 :> HistNew)
        /\ purged = {}
        /\ probe = [seen |-> <<d>>, reported |-> TrackAverageDepth(tracks[1])]

\* track.update(box, depth) for one more matched detection, then
\* track.get_average_depth()
TrackObserve(maxObs) ==
    \E d \in HistoryDepths :
    \E t \in {TrackUpdate(tracks[1], HistoryBox, d)} :
        /\ tracks[1].total_observations < maxObs
        /\ tracks' = <<t>>
        /\ probe' = [seen |-> Append(probe.seen, d), reported |-> TrackAverageDepth(t)]
        /\ op' = "track_update"
        /\ UNCHANGED <<id_counter, out, dets, committed, issued, reset_at, hist, purged>>

(***************************************************************************)
(*                         MapManagerLaptop                                *)
(***************************************************************************)

\* ---- program constants (mm, mrad, mm/s, mrad/s) ----
PI_MRAD              == 3142     \* math.pi
HALF_PI_MRAD         == 1571     \* math.pi / 2
START_MARGIN         == 200      \* 0.2 m from the right and bottom edges
MAX_SPEED_MPS        == 1220     \* 1.22 m/s at full throttle
MIN_TURN_SPEED       == 10       \* abs(v) > 0.01
TURN_RADIUS_RIGHT    == 1085     \* CURVATURE_RIGHT = 1.0 / 1.085
TURN_RADIUS_LEFT     == 1430     \* CURVATURE_LEFT  = 1.0 / 1.43
MAX_TURN_RIGHT_RADPS == 1124
MAX_TURN_LEFT_RADPS  == 853
HALF_FOV             == 500      \* angle_offset = -x_norm * 0.5
DEFAULT_RADIUS       == 300
ALIEN_RADIUS         == 200
WATER_RADIUS         == 400
MAX_OBSERVATIONS     == 10
MERGE_RADIUS         == 600
BLEND_OLD            == 7        \* c['x'] * 0.7
BLEND_NEW            == 3        \* x * 0.3
BLEND_DEN            == 10

\* a dict without 'track_id' (None) / without 'radius_m' (None)
NoTrackId == 0
NoRadius  == -1

\* a * num / den on fixed-point integers, rounded towards zero
Scale(a, num, den) ==
    IF a * num >= 0 THEN (a * num) \div den ELSE -((-(a * num)) \div den)

\* math.sin / math.cos of an angle in mrad, in thousandths
\* (Bhaskara's rational approximation on [0, pi], odd and periodic outside).
SinHalfTurn(a) ==
    LET p == a * (PI_MRAD - a)
    IN  (16000 * (p \div 100)) \div ((5 * PI_MRAD * PI_MRAD - 4 * p) \div 100)
Sin(a) ==
    LET r == a % (2 * PI_MRAD)
    IN  IF r <= PI_MRAD THEN SinHalfTurn(r) ELSE -SinHalfTurn(r - PI_MRAD)
Cos(a) == Sin(a + HALF_PI_MRAD)

\* max(0, min(limit, v))
Clamp(v, limit) == Max(0, Min(limit, v))

\* MapManagerLaptop.__init__ / reset_map: the start pose and the empty map
HomePose(w) == [x |-> w - START_MARGIN, y |-> START_MARGIN, theta |-> HALF_PI_MRAD]

InitMap(widths, heights) ==
    /\ width_m \in widths /\ height_m \in heights
    /\ kinematics = "jetracer"
    /\ x = HomePose(width_m).x /\ y = HomePose(width_m).y /\ theta = HomePose(width_m).theta
    /\ craters = <<>> /\ crater_id_counter = 0
    /\ pose_calls = 0
    /\ last_visible = <<>>
    /\ mode_arg = "jetracer"
    /\ pose_arg = [throttle |-> 0, steering |-> 0, dt |-> 0]

\* (mutant of AngularVelocity: the Ackermann branch turns at any speed)
AngularVelocityNoThreshold(mode, v, steering) ==
    IF mode = "jetracer"
    THEN IF steering > 0
         THEN Scale(v, steering, TURN_RADIUS_LEFT)
         ELSE -Scale(v, Abs(steering), TURN_RADIUS_RIGHT)
    ELSE IF steering > 0
         THEN Scale(steering, MAX_TURN_LEFT_RADPS, 1000)
         ELSE LET w == Scale(steering, MAX_TURN_RIGHT_RADPS, 1000)
              IN  IF steering < 0 THEN -w ELSE w

\* update_pose: the angular velocity w (mrad/s) for speed v (mm/s)
AngularVelocity(mode, v, steering) ==
    IF mode = "jetracer"
    THEN IF Abs(v) > MIN_TURN_SPEED
         THEN IF steering > 0
              THEN Scale(v, steering, TURN_RADIUS_LEFT)
              ELSE -Scale(v, Abs(steering), TURN_RADIUS_RIGHT)
         ELSE 0
    ELSE IF steering > 0
         THEN Scale(steering, MAX_TURN_LEFT_RADPS, 1000)
         ELSE LET w == Scale(steering, MAX_TURN_RIGHT_RADPS, 1000)
              IN  IF steering < 0 THEN -w ELSE w

\* update_pose(throttle, steering, dt): the pose after the call
PoseAfter(p, w_m, h_m, mode, throttle, steering, dt) ==
    LET v  == Scale(throttle, MAX_SPEED_MPS, 1000)
        w  == AngularVelocity(mode, v, steering)
        x1 == p.x + Scale(Scale(v, Cos(p.theta), 1000), dt, 1000)
        y1 == p.y + Scale(Scale(v, Sin(p.theta), 1000), dt, 1000)
        t1 == p.theta + Scale(w, dt, 1000)
    IN  [x |-> Clamp(x1, w_m), y |-> Clamp(y1, h_m), theta |-> t1]

\* ---- update_craters / _add_unique_landmark ----

\* c['x'] * 0.7 + x * 0.3
Blend(old, new) == Scale(BLEND_OLD * old + BLEND_NEW * new, 1, BLEND_DEN)

\* math.hypot(c['x'] - x, c['y'] - y) < MERGE_RADIUS
WithinMergeRadius(c, gx, gy) ==
    (c.x - gx) * (c.x - gx) + (c.y - gy) * (c.y - gy) < MERGE_RADIUS * MERGE_RADIUS

\* the first index of cs whose entry satisfies P, 0 when there is none
\* (a `for c in self.craters` loop that returns at its first hit)
FirstIndex(cs, P(_)) ==
    IF \E i \in DOMAIN cs : P(cs[i])
    THEN CHOOSE i \in DOMAIN cs : P(cs[i]) /\ \A j \in 1..(i - 1) : ~P(cs[j])
    ELSE 0

\* the landmark appended by `self.craters.append({...})`
NewLandmark(id, gx, gy, radius, label, track_id) ==
    [ id |-> id, x |-> gx, y |-> gy, radius |-> radius, label |-> label,
      track_id |-> track_id, observation_count |-> 1, locked |-> FALSE ]

\* (mutant of MergeByTrackId: a locked landmark is blended like any other)
MergeByTrackIdNoLock(c, gx, gy) ==
    LET n == c.observation_count + 1
    IN  [c EXCEPT !.x = Blend(c.x, gx), !.y = Blend(c.y, gy),
                  !.observation_count = n,
                  !.locked = (c.locked \/ n >= MAX_OBSERVATIONS)]

\* (mutant of MergeByTrackId: the lock is set one observation early)
MergeByTrackIdEarlyLock(c, gx, gy) ==
    IF c.locked THEN c
    ELSE LET n == c.observation_count + 1
         IN  [c EXCEPT !.x = Blend(c.x, gx), !.y = Blend(c.y, gy),
                       !.observation_count = n,
                       !.locked = (n >= MAX_OBSERVATIONS - 1)]

\* (mutant of MergeByTrackId: the lock is set one observation late)
MergeByTrackIdLateLock(c, gx, gy) ==
    IF c.locked THEN c
    ELSE LET n == c.observation_count + 1
         IN  [c EXCEPT !.x = Blend(c.x, gx), !.y = Blend(c.y, gy),
                       !.observation_count = n,
                       !.locked = (n > MAX_OBSERVATIONS)]

\* tier 1, the body of `if c.get('track_id') == track_id:` for the landmark c
MergeByTrackId(c, gx, gy) ==
    IF c.locked THEN c
    ELSE LET n == c.observation_count + 1
         IN  [c EXCEPT !.x = Blend(c.x, gx), !.y = Blend(c.y, gy),
                       !.observation_count = n,
                       !.locked = (n >= MAX_OBSERVATIONS)]

\* (mutant of MergeCandidate: locked landmarks are not skipped)
MergeCandidateAnyLock(c, gx, gy, label) ==
    c.label = label /\ WithinMergeRadius(c, gx, gy)

\* tier 2, the landmarks the position-based loop merges into
MergeCandidate(c, gx, gy, label) ==
    c.label = label /\ ~c.locked /\ WithinMergeRadius(c, gx, gy)

\* (mutant of MergeByPosition: the merge counts as an observation)
MergeByPositionCounting(c, gx, gy) ==
    [c EXCEPT !.x = Blend(c.x, gx), !.y = Blend(c.y, gy),
              !.observation_count = c.observation_count + 1]

\* tier 2, the merge itself: the count is not touched
MergeByPosition(c, gx, gy) == [c EXCEPT !.x = Blend(c.x, gx), !.y = Blend(c.y, gy)]

\* (mutant of AddUniqueLandmark: a new landmark replaces the list)
AddUniqueLandmarkReplacing(m, gx, gy, radius, label, track_id, observation_count) ==
    LET t1 == IF track_id = NoTrackId THEN 0
              ELSE FirstIndex(m.craters, LAMBDA c : c.track_id = track_id)
        t2 == FirstIndex(m.craters, LAMBDA c : MergeCandidate(c, gx, gy, label))
    IN  IF t1 /= 0
        THEN [m EXCEPT !.craters[t1] = MergeByTrackId(@, gx, gy)]
        ELSE IF t2 /= 0
        THEN [m EXCEPT !.craters[t2] = MergeByPosition(@, gx, gy)]
        ELSE [ craters |-> <<NewLandmark(m.crater_id_counter, gx, gy, radius,
                                         label, track_id)>>,
               crater_id_counter |-> m.crater_id_counter + 1 ]

\* (mutant of AddUniqueLandmark: no `track_id is not None` test before tier 1)
AddUniqueLandmarkNoneMatches(m, gx, gy, radius, label, track_id, observation_count) ==
    LET t1 == FirstIndex(m.craters, LAMBDA c : c.track_id = track_id)
        t2 == FirstIndex(m.craters, LAMBDA c : MergeCandidate(c, gx, gy, label))
    IN  IF t1 /= 0
        THEN [m EXCEPT !.craters[t1] = MergeByTrackId(@, gx, gy)]
        ELSE IF t2 /= 0
        THEN [m EXCEPT !.craters[t2] = MergeByPosition(@, gx, gy)]
        ELSE [ craters |-> Append(m.craters,
                                  NewLandmark(m.crater_id_counter, gx, gy, radius,
                                              label, track_id)),
               crater_id_counter |-> m.crater_id_counter + 1 ]

\* (mutant of AddUniqueLandmark: a locked landmark is not found by its track id)
AddUniqueLandmarkSkipLocked(m, gx, gy, radius, label, track_id, observation_count) ==
    LET t1 == IF track_id /= NoTrackId
              THEN FirstIndex(m.craters, LAMBDA c : c.track_id = track_id /\ ~c.locked)
              ELSE 0
        t2 == FirstIndex(m.craters, LAMBDA c : MergeCandidate(c, gx, gy, label))
    IN  IF t1 /= 0
        THEN [m EXCEPT !.craters[t1] = MergeByTrackId(@, gx, gy)]
        ELSE IF t2 /= 0
        THEN [m EXCEPT !.craters[t2] = MergeByPosition(@, gx, gy)]
        ELSE [ craters |-> Append(m.craters,
                                  NewLandmark(m.crater_id_counter, gx, gy, radius,
                                              label, track_id)),
               crater_id_counter |-> m.crater_id_counter + 1 ]

\* _add_unique_landmark(x, y, radius, label, track_id, observation_count) on the
\* map m = [craters, crater_id_counter]; observation_count is not read.
AddUniqueLandmark(m, gx, gy, radius, label, track_id, observation_count) ==
    LET t1 == IF track_id /= NoTrackId
              THEN FirstIndex(m.craters, LAMBDA c : c.track_id = track_id)
              ELSE 0
        t2 == FirstIndex(m.craters, LAMBDA c : MergeCandidate(c, gx, gy, label))
    IN  IF t1 /= 0
        THEN [m EXCEPT !.craters[t1] = MergeByTrackId(@, gx, gy)]
        ELSE IF t2 /= 0
        THEN [m EXCEPT !.craters[t2] = MergeByPosition(@, gx, gy)]
        ELSE [ craters |-> Append(m.craters,
                                  NewLandmark(m.crater_id_counter, gx, gy, radius,
                                              label, track_id)),
               crater_id_counter |-> m.crater_id_counter + 1 ]

\* the radius used when the dict has no 'radius_m'
RadiusOf(c) ==
    IF c.radius_m /= NoRadius THEN c.radius_m
    ELSE IF DetLabel(c) = "alien" THEN ALIEN_RADIUS
    ELSE IF DetLabel(c) = "water-sight" THEN WATER_RADIUS
    ELSE DEFAULT_RADIUS

\* update_craters steps 1 and 2: the global position of the visible crater c
Project(p, c, img_width) ==
    LET angle_offset == -Scale(c.box[1] + c.box[3] - img_width, HALF_FOV, img_width)
        loc_x == Scale(c.depth, Cos(angle_offset), 1000)
        loc_y == Scale(c.depth, Sin(angle_offset), 1000)
    IN  [ gx |-> p.x + Scale(loc_x, Cos(p.theta), 1000) - Scale(loc_y, Sin(p.theta), 1000),
          gy |-> p.y + Scale(loc_x, Sin(p.theta), 1000) + Scale(loc_y, Cos(p.theta), 1000) ]

\* update_craters(visible_craters, img_width): the loop over the list
RECURSIVE FuseAll(_, _, _, _)
FuseAll(m, p, visible, img_width) ==
    IF visible = <<>> THEN m
    ELSE LET c == Head(visible)
             g == Project(p, c, img_width)
         IN  FuseAll(AddUniqueLandmark(m, g.gx, g.gy, RadiusOf(c), DetLabel(c),
                                       c.track_id, c.observation_count),
                     p, Tail(visible), img_width)

Pose == [x |-> x, y |-> y, theta |-> theta]

\* ---- bounds of the map model ----
\*   batch     : visible craters in one update_craters call
\*   landmarks : landmarks on the map
\*   calls     : update_pose calls since construction or the last reset_map
MapBatch     == 1
MapLandmarks == 2
MapPoseCalls == 2
PoseCalls    == 2
\* the same three for the run of every operation of the map owner
FullBatch     == 1
FullLandmarks == 2
FullPoseCalls == 1

\* ---- the inputs the map is driven with ----
IMG_WIDTH == 640
Vis(b, d, l, t, n, r) ==
    [box |-> b, depth |-> d, label |-> l, track_id |-> t, observation_count |-> n,
     radius_m |-> r]
\* a crater seen straight ahead at 0.7 m: tracked as 1, tracked as 2, or
\* untracked and without label
VisibleCraters ==
    { Vis(<<300, 200, 340, 240>>, 700, "crater", 1, 3, NoRadius),
      Vis(<<300, 200, 340, 240>>, 700, "crater", 2, 3, 250),
      Vis(<<300, 200, 340, 240>>, 700, NoLabel, NoTrackId, 1, NoRadius) }
BatchesOf(universe, n) == UNION {[1..k -> universe] : k \in 0..n}
VisibleBatches(n) == BatchesOf(VisibleCraters, n)
\* the same crater, tracked as 1 or untracked
FullCraters ==
    { Vis(<<300, 200, 340, 240>>, 700, "crater", 1, 3, NoRadius),
      Vis(<<300, 200, 340, 240>>, 700, NoLabel, NoTrackId, 1, NoRadius) }

PoseInput(t, s, d) == [throttle |-> t, steering |-> s, dt |-> d]
\* a nudge forward
MapPoseInputs == {PoseInput(1000, 0, 5)}
Modes == {"jetracer", "ugv", "tank"}
\* map sizes: the default 5 m, and 0.1 m (narrower than the start margin)
MapSizes == {100, 5000}
\* full throttle either way, none, or a crawl below the turning speed; full
\* steering either way or none; half a second
PoseThrottles == {-1000, 0, 5, 1000}
PoseSteerings == {-1000, 0, 1000}
PoseInputs == {PoseInput(t, st, 500) : t \in PoseThrottles, st \in PoseSteerings}

\* mapper.update_craters(visible_craters, img_width)
UpdateCratersFrom(batches, maxLandmarks) ==
    \E visible_craters \in batches :
    \E m \in {FuseAll([craters |-> craters, crater_id_counter |-> crater_id_counter],
                      Pose, visible_craters, IMG_WIDTH)} :
        /\ Len(m.craters) <= maxLandmarks
        /\ last_visible' = visible_craters
        /\ craters' = m.craters
        /\ crater_id_counter' = m.crater_id_counter
        /\ op' = "update_craters"
        /\ UNCHANGED <<width_m, height_m, kinematics, x, y, theta, pose_calls, mode_arg,
                       pose_arg>>

UpdateCratersWithin(maxBatch, maxLandmarks) ==
    UpdateCratersFrom(VisibleBatches(maxBatch), maxLandmarks)

\* mapper.update_pose(throttle, steering, dt)
UpdatePoseWithin(inputs, maxCalls) ==
    \E i \in inputs :
    \E p \in {PoseAfter(Pose, width_m, height_m, kinematics, i.throttle, i.steering, i.dt)} :
        /\ pose_calls < maxCalls
        /\ pose_calls' = pose_calls + 1
        /\ x' = p.x /\ y' = p.y /\ theta' = p.theta
        /\ pose_arg' = i
        /\ op' = "update_pose"
        /\ UNCHANGED <<width_m, height_m, kinematics, craters, crater_id_counter,
                       last_visible, mode_arg>>

\* (mutant of KinematicsAfter: an unknown mode falls back to the default)
KinematicsAfterDefault(current, mode) ==
    IF mode \in {"jetracer", "ugv"} THEN mode ELSE "jetracer"

\* set_kinematics: the mode in force after the call
KinematicsAfter(current, mode) ==
    IF mode \in {"jetracer", "ugv"} THEN mode ELSE current

\* (mutant of SetKinematics: a change of mode re-homes the rover)
SetKinematicsRehoming ==
    \E mode \in Modes :
        /\ kinematics' = KinematicsAfter(kinematics, mode)
        /\ mode_arg' = mode
        /\ x' = IF kinematics' /= kinematics THEN HomePose(width_m).x ELSE x
        /\ y' = IF kinematics' /= kinematics THEN HomePose(width_m).y ELSE y
        /\ theta' = IF kinematics' /= kinematics THEN HomePose(width_m).theta ELSE theta
        /\ op' = "set_kinematics"
        /\ UNCHANGED <<width_m, height_m, craters, crater_id_counter,
                       pose_calls, last_visible, pose_arg>>

\* mapper.set_kinematics(mode)
SetKinematics ==
    \E mode \in Modes :
        /\ kinematics' = KinematicsAfter(kinematics, mode)
        /\ mode_arg' = mode
        /\ op' = "set_kinematics"
        /\ UNCHANGED <<width_m, height_m, x, y, theta, craters, crater_id_counter,
                       pose_calls, last_visible, pose_arg>>

\* (mutant of ResetMap: the landmark id numbering is not restarted)
ResetMapKeepCounter ==
    /\ craters' = <<>>
    /\ x' = HomePose(width_m).x /\ y' = HomePose(width_m).y
    /\ theta' = HomePose(width_m).theta
    /\ pose_calls' = 0
    /\ op' = "reset_map"
    /\ UNCHANGED <<width_m, height_m, kinematics, crater_id_counter,
                   last_visible, mode_arg, pose_arg>>

\* mapper.reset_map()
ResetMap ==
    /\ craters' = <<>>
    /\ crater_id_counter' = 0
    /\ x' = HomePose(width_m).x /\ y' = HomePose(width_m).y
    /\ theta' = HomePose(width_m).theta
    /\ pose_calls' = 0
    /\ op' = "reset_map"
    /\ UNCHANGED <<width_m, height_m, kinematics, last_visible, mode_arg, pose_arg>>

(***************************************************************************)
(*          MapManagerLaptop, one statement at a time                      *)
(*                                                                         *)
(* The server calls update_pose and get_status from the /display request   *)
(* handler and reset_map from a socket event handler; no lock is taken     *)
(* around the mapper (src/moonrover_server.py l.402-413, l.595-598), so    *)
(* calls made by different handler threads interleave.  A thread is        *)
(* followed one source statement at a time (the interpreter can switch     *)
(* threads inside a statement too: every interleaving here is one of the   *)
(* program's).                                                             *)
(***************************************************************************)

\* ---- bounds and input of the run of the map owner with its readers ----
AllBatch     == 1
AllLandmarks == 1
AllPoseCalls == 1
\* a crater seen straight ahead at 0.7 m, tracked as 1
AllCraters == {Vis(<<300, 200, 340, 240>>, 700, "crater", 1, 3, NoRadius)}

\* ---- bounds: update_pose calls begun since construction or the last
\* reset_map, and calls begun since no call was in progress ----
ReadPoseCalls == 2
RacePoseCalls == 1
RaceOverlap   == 2

\* full throttle with the wheel turned left, or straight; half a second
ThreadPoseInputs == {PoseInput(1000, 1000, 500), PoseInput(1000, 0, 500)}

NoStatus == [x |-> 0, y |-> 0, theta |-> 0, at |-> "none", before |-> 0, after |-> 0]

InitThreads ==
    /\ upd_pc = "idle"
    /\ upd_loc = [v |-> 0, w |-> 0, dt |-> 0, before |-> 0, after |-> 0]
    /\ rst_pc = "idle"
    /\ status = NoStatus
    /\ epoch = <<>>

Begun(name) == IF upd_pc = "idle" /\ rst_pc = "idle" THEN <<name>> ELSE Append(epoch, name)

\* update_pose l.48-90: v and w are computed from the arguments and the mode.
\* (before, after: the pose at the call and the pose the call alone would
\* leave, kept for the observer)
PoseBegin(inputs, maxCalls) ==
    \E i \in inputs :
        /\ upd_pc = "idle"
        /\ pose_calls < maxCalls
        /\ Len(Begun("update_pose")) <= RaceOverlap
        /\ pose_calls' = pose_calls + 1
        /\ pose_arg' = i
        /\ upd_loc' = [ v  |-> Scale(i.throttle, MAX_SPEED_MPS, 1000),
                        w  |-> AngularVelocity(kinematics,
                                               Scale(i.throttle, MAX_SPEED_MPS, 1000),
                                               i.steering),
                        dt |-> i.dt,
                        before |-> Pose,
                        after  |-> PoseAfter(Pose, width_m, height_m, kinematics,
                                             i.throttle, i.steering, i.dt) ]
        /\ upd_pc' = "x"
        /\ epoch' = Begun("update_pose")
        /\ op' = "pose_begin"
        /\ UNCHANGED <<width_m, height_m, kinematics, x, y, theta, craters,
                       crater_id_counter, last_visible, mode_arg, rst_pc, status>>

\* update_pose l.92-99, the statement at upd_pc:
\*   self.x += v * math.cos(self.theta) * dt
\*   self.y += v * math.sin(self.theta) * dt
\*   self.theta += w * dt
\*   self.x = max(0, min(self.width_m, self.x))
\*   self.y = max(0, min(self.height_m, self.y))
PoseLine ==
    /\ upd_pc /= "idle"
    /\ x' = CASE upd_pc = "x" ->
                   x + Scale(Scale(upd_loc.v, Cos(theta), 1000), upd_loc.dt, 1000)
              [] upd_pc = "clamp_x" -> Clamp(x, width_m)
              [] OTHER -> x
    /\ y' = CASE upd_pc = "y" ->
                   y + Scale(Scale(upd_loc.v, Sin(theta), 1000), upd_loc.dt, 1000)
              [] upd_pc = "clamp_y" -> Clamp(y, height_m)
              [] OTHER -> y
    /\ theta' = IF upd_pc = "theta" THEN theta + Scale(upd_loc.w, upd_loc.dt, 1000)
                ELSE theta
    /\ upd_pc' = CASE upd_pc = "x" -> "y"
                   [] upd_pc = "y" -> "theta"
                   [] upd_pc = "theta" -> "clamp_x"
                   [] upd_pc = "clamp_x" -> "clamp_y"
                   [] upd_pc = "clamp_y" -> "idle"
    /\ op' = "pose_line"
    /\ UNCHANGED <<width_m, height_m, kinematics, craters, crater_id_counter,
                   pose_calls, last_visible, mode_arg, pose_arg, upd_loc, rst_pc,
                   status, epoch>>

\* get_status(): the pose fields of the returned dict
GetStatus ==
    /\ status' = [x |-> x, y |-> y, theta |-> theta, at |-> upd_pc,
                  before |-> upd_loc.before, after |-> upd_loc.after]
    /\ op' = "get_status"
    /\ UNCHANGED <<mapVars, upd_pc, upd_loc, rst_pc, epoch>>

\* reset_map() is entered
ResetBegin ==
    /\ rst_pc = "idle"
    /\ Len(Begun("reset_map")) <= RaceOverlap
    /\ rst_pc' = "craters"
    /\ epoch' = Begun("reset_map")
    /\ op' = "reset_begin"
    /\ UNCHANGED <<mapVars, upd_pc, upd_loc, status>>

\* reset_map l.38-45, the statement at rst_pc:
\*   self.craters = []
\*   self.crater_id_counter = 0
\*   self.x = self.width_m - 0.2
\*   self.y = 0.2
\*   self.theta = math.pi / 2
ResetLine ==
    /\ rst_pc /= "idle"
    /\ craters' = IF rst_pc = "craters" THEN <<>> ELSE craters
    /\ crater_id_counter' = IF rst_pc = "counter" THEN 0 ELSE crater_id_counter
    /\ x' = IF rst_pc = "x" THEN HomePose(width_m).x ELSE x
    /\ y' = IF rst_pc = "y" THEN HomePose(width_m).y ELSE y
    /\ theta' = IF rst_pc = "theta" THEN HomePose(width_m).theta ELSE theta
    /\ rst_pc' = CASE rst_pc = "craters" -> "counter"
                   [] rst_pc = "counter" -> "x"
                   [] rst_pc = "x" -> "y"
                   [] rst_pc = "y" -> "theta"
                   [] rst_pc = "theta" -> "idle"
    /\ pose_calls' = IF rst_pc = "theta" THEN 0 ELSE pose_calls
    /\ op' = "reset_line"
    /\ UNCHANGED <<width_m, height_m, kinematics, last_visible, mode_arg,
                   pose_arg, upd_pc, upd_loc, status, epoch>>

(***************************************************************************)
(*                         DecisionSystem                                  *)
(***************************************************************************)

SAFE_MARGIN      == 500      \* DecisionSystem(safe_margin=0.5)
FRONT_HALF_ANGLE == 350      \* abs(angle) < 0.35

\* math.atan of z / 1000 for 0 <= z <= 1000, in mrad
\* (z * (pi/4 + 0.273 * (1 - z)), within 4 mrad of the arc tangent)
AtanUnit(z) == Scale(z, 785 + Scale(273, 1000 - z, 1000), 1000)

\* math.atan2(dy, dx) in mrad, in (-pi, pi]; atan2(0, 0) = 0
Atan2(dy, dx) ==
    LET ax == Abs(dx)
        ay == Abs(dy)
        a  == IF ax = 0 /\ ay = 0 THEN 0
              ELSE IF ay <= ax THEN AtanUnit((1000 * ay) \div ax)
              ELSE HALF_PI_MRAD - AtanUnit((1000 * ax) \div ay)
        q  == IF dx >= 0 THEN a ELSE PI_MRAD - a
    IN  IF dy >= 0 THEN q ELSE -q

\* math.atan2(math.sin(angle), math.cos(angle)): the angle brought into
\* [-pi, pi]; a positive half turn stays +pi, a negative one -pi
Normalize(a) ==
    LET r == ((a + PI_MRAD) % (2 * PI_MRAD)) - PI_MRAD
    IN  IF r = -PI_MRAD /\ a > 0 THEN PI_MRAD ELSE r

\* the bearing of landmark c from the pose, after normalisation
Bearing(pose, c) == Normalize(Atan2(c.y - pose.y, c.x - pose.x) - pose.theta)

\* (mutant of Sector: the front sector includes its two edges)
SectorInclusive(pose, c) ==
    LET angle == Bearing(pose, c)
    IN  IF Abs(angle) <= FRONT_HALF_ANGLE THEN "front"
        ELSE IF angle > 0 THEN "left" ELSE "right"

\* the list a landmark is appended to
Sector(pose, c) ==
    LET angle == Bearing(pose, c)
    IN  IF Abs(angle) < FRONT_HALF_ANGLE THEN "front"
        ELSE IF angle > 0 THEN "left" ELSE "right"

\* math.hypot(dx, dy), kept as its square (distances are only compared)
Dist2(pose, c) ==
    (c.x - pose.x) * (c.x - pose.x) + (c.y - pose.y) * (c.y - pose.y)

\* d < c['radius'] + self.safe_margin for an entry e = [d2, c] of a list
IsBlocking(e, safe_margin) ==
    /\ e.c.radius + safe_margin > 0
    /\ e.d2 < (e.c.radius + safe_margin) * (e.c.radius + safe_margin)

\* any(d < c['radius'] + self.safe_margin for d, c in lst)
AnyBlocking(lst, safe_margin) == \E i \in DOMAIN lst : IsBlocking(lst[i], safe_margin)

\* the `for c in craters` loop: the lists front, left, right
RECURSIVE SortLandmarks(_, _, _)
SortLandmarks(pose, cs, acc) ==
    IF cs = <<>> THEN acc
    ELSE LET c == Head(cs)
             e == [d2 |-> Dist2(pose, c), c |-> c]
             k == Sector(pose, c)
         IN  SortLandmarks(pose, Tail(cs),
                 [acc EXCEPT ![k] = Append(@, e)])

\* (mutant of DecisionRule: the right side is tried before the left)
DecisionRuleRightFirst(lists, safe_margin) ==
    IF AnyBlocking(lists.front, safe_margin)
    THEN LET left_clear  == ~AnyBlocking(lists.left, safe_margin)
             right_clear == ~AnyBlocking(lists.right, safe_margin)
         IN  IF right_clear THEN "turn_right"
             ELSE IF left_clear THEN "turn_left"
             ELSE "stop"
    ELSE "go_straight"

\* the rule-based decision
DecisionRule(lists, safe_margin) ==
    IF AnyBlocking(lists.front, safe_margin)
    THEN LET left_clear  == ~AnyBlocking(lists.left, safe_margin)
             right_clear == ~AnyBlocking(lists.right, safe_margin)
         IN  IF left_clear THEN "turn_left"
             ELSE IF right_clear THEN "turn_right"
             ELSE "stop"
    ELSE "go_straight"

\* (mutant of decide: a turn once begun to the right is kept)
decideSticky(pose, cs) ==
    LET r == DecisionRule(SortLandmarks(pose, cs,
                                        [front |-> <<>>, left |-> <<>>, right |-> <<>>]),
                          SAFE_MARGIN)
    IN  IF r = "turn_left" /\ decision = "turn_right" THEN "turn_right" ELSE r

\* DecisionSystem.decide(pose, craters)
decide(pose, cs) ==
    DecisionRule(SortLandmarks(pose, cs, [front |-> <<>>, left |-> <<>>, right |-> <<>>]),
                 SAFE_MARGIN)

\* ---- bounds and inputs of the decision model ----
DecideLandmarks == 3

\* the rover in the middle of the map, heading 0.35 rad to either side of
\* east, or 0.349 rad to its right
DecidePoses == {[x |-> 2000, y |-> 2000, theta |-> t] :
                    t \in {FRONT_HALF_ANGLE, -FRONT_HALF_ANGLE, 1 - FRONT_HALF_ANGLE}}
\* landmarks east of the rover (near, and at radius + safe_margin exactly),
\* north and south of it
Landmark(px, py) == NewLandmark(0, px, py, DEFAULT_RADIUS, "crater", NoTrackId)
DecideCraters == {Landmark(2500, 2000), Landmark(2000 + DEFAULT_RADIUS + SAFE_MARGIN, 2000),
                  Landmark(2000, 2500), Landmark(2000, 1500)}
DecideLists(n) == UNION {[1..k -> DecideCraters] : k \in 0..n}

InitDecide ==
    /\ dec_pose = [x |-> 0, y |-> 0, theta |-> 0]
    /\ dec_craters = <<>>
    /\ decision = "none"

\* decision = DecisionSystem().decide(pose, craters)
DecideCall(maxLandmarks) ==
    \E pose \in DecidePoses : \E cs \in DecideLists(maxLandmarks) :
        /\ dec_pose' = pose
        /\ dec_craters' = cs
        /\ decision' = decide(pose, cs)
        /\ op' = "decide"

\* ---- repeated calls: bound and inputs ----
RepeatLandmarks == 2
\* landmarks near the rover: east, north and south of it
RepeatCraters == {Landmark(2500, 2000), Landmark(2000, 2500), Landmark(2000, 1500)}
RepeatLists(n) == UNION {[1..k -> RepeatCraters] : k \in 0..n}

\* the rover in the middle of the map, heading east
RepeatPoses == {[x |-> 2000, y |-> 2000, theta |-> 0]}

\* (later: the calls made after the kept one, counted up to 2)
NoMemo == [pose |-> [x |-> 0, y |-> 0, theta |-> 0], craters |-> <<>>, action |-> "none",
           later |-> 0]

\* decision = DecisionSystem().decide(pose, craters), the observer keeping this
\* call or the one it had kept
DecideAgain(maxLandmarks) ==
    \E pose \in RepeatPoses : \E cs \in RepeatLists(maxLandmarks) :
    \E a \in {decide(pose, cs)} :
        /\ dec_pose' = pose
        /\ dec_craters' = cs
        /\ decision' = a
        /\ memo' \in {[memo EXCEPT !.later = Min(2, @ + 1)],
                      [pose |-> pose, craters |-> cs, action |-> a, later |-> 0]}
        /\ op' = "decide"

\* decision = DecisionSystem().decide(status['pose'], status['craters']) on the
\* mapper's own pose and landmark list
DecideOnMap ==
    /\ decision' = decide(Pose, craters)
    /\ op' = "decide"
    /\ UNCHANGED <<dec_pose, dec_craters>>

(***************************************************************************)
(*                         Specifications                                  *)
(***************************************************************************)

\* ---- the server: vision, tracker and map together ----
\* bounds: as for the tracker and the map alone
SysDets      == 1
SysCreated   == 2
SysAge       == 4
SysLandmarks == 2
SysPoseCalls == 4

\* a crater ahead of the camera and an alien to its left, both at 0.7 m
SysDetections == {Det(<<300, 200, 340, 240>>, "crater"), Det(<<100, 200, 140, 240>>, "alien")}

\* VisionSystem.process_frame, after tracker.update: the copies of the
\* confirmed tracks that become cached_craters.  A track dict has no
\* 'radius_m', so a 'crater' is classified with radius 0.0, as 'small crater'.
\* The depth is the mean of the history, in whole millimetres.
VisibleOf(confirmed_tracks) ==
    [i \in DOMAIN confirmed_tracks |->
        LET t == confirmed_tracks[i]
        IN  Vis(t.box, t.depth[1] \div t.depth[2],
                IF t.label = "crater" THEN "small crater" ELSE t.label,
                t.track_id, t.observation_count, NoRadius)]

NoPcs == [tick |-> "idle", reset |-> "idle"]
InitSys == other = <<>> /\ pcs = NoPcs
InitSteps == InitThreads /\ memo = NoMemo /\ probe = NoProbe /\ iou_call = NoIouCall
             /\ loop = NoLoop /\ InitSys
InitT == InitTracker /\ InitMap({5000}, {5000}) /\ InitDecide /\ InitSteps /\ op = "init"

\* The tracker alone, any sequence of update and reset calls:
\* one object at a time, followed through its whole life
NextLife == \/ UpdateWithin(LifeDetections, LifeDets, LifeCreated, LifeAge) /\ UNCHANGED <<mapVars, decideVars, stepVars>>
            \/ Reset /\ UNCHANGED <<mapVars, decideVars, stepVars>>
SpecLife == InitT /\ [][NextLife]_vars

\* several objects created one after the other
NextIds == \/ UpdateWithin(IdsDetections, IdsDets, IdsCreated, IdsAge) /\ UNCHANGED <<mapVars, decideVars, stepVars>>
           \/ Reset /\ UNCHANGED <<mapVars, decideVars, stepVars>>
SpecIds == InitT /\ [][NextIds]_vars

\* the same without any reset() call
NextGrow == UpdateWithin(IdsDetections, IdsDets, IdsCreated, IdsAge) /\ UNCHANGED <<mapVars, decideVars, stepVars>>
SpecGrow == InitT /\ [][NextGrow]_vars

\* several objects in one frame
NextMatch == \/ UpdateWithin(MatchDetections, MatchDets, MatchCreated, MatchAge) /\ UNCHANGED <<mapVars, decideVars, stepVars>>
             \/ Reset /\ UNCHANGED <<mapVars, decideVars, stepVars>>
SpecMatch == InitT /\ [][NextMatch]_vars

\* The map alone: fusing, nudging the pose, resetting
InitM == InitTracker /\ InitMap({5000}, {5000}) /\ InitDecide /\ InitSteps /\ op = "init"
NextMap == \/ UpdateCratersWithin(MapBatch, MapLandmarks) /\ UNCHANGED <<trackerVars, decideVars, stepVars>>
           \/ UpdatePoseWithin(MapPoseInputs, MapPoseCalls) /\ UNCHANGED <<trackerVars, decideVars, stepVars>>
           \/ ResetMap /\ UNCHANGED <<trackerVars, decideVars, stepVars>>
SpecMap == InitM /\ [][NextMap]_vars

\* The pose owner alone, for several map sizes
InitP == InitTracker /\ InitMap(MapSizes, MapSizes) /\ InitDecide /\ InitSteps /\ op = "init"
NextPose == \/ UpdatePoseWithin(PoseInputs, PoseCalls) /\ UNCHANGED <<trackerVars, decideVars, stepVars>>
            \/ SetKinematics /\ UNCHANGED <<trackerVars, decideVars, stepVars>>
            \/ ResetMap /\ UNCHANGED <<trackerVars, decideVars, stepVars>>
SpecPose == InitP /\ [][NextPose]_vars

\* Every operation of the map owner
NextFull == \/ UpdateCratersFrom(BatchesOf(FullCraters, FullBatch), FullLandmarks) /\ UNCHANGED <<trackerVars, decideVars, stepVars>>
            \/ UpdatePoseWithin(MapPoseInputs, FullPoseCalls) /\ UNCHANGED <<trackerVars, decideVars, stepVars>>
            \/ SetKinematics /\ UNCHANGED <<trackerVars, decideVars, stepVars>>
            \/ ResetMap /\ UNCHANGED <<trackerVars, decideVars, stepVars>>
SpecFull == InitP /\ [][NextFull]_vars

\* A reader of the status while update_pose calls run
NextRead == \/ PoseBegin(ThreadPoseInputs, ReadPoseCalls) /\ UNCHANGED <<trackerVars, decideVars, callVars, sysVars>>
            \/ PoseLine /\ UNCHANGED <<trackerVars, decideVars, callVars, sysVars>>
            \/ GetStatus /\ UNCHANGED <<trackerVars, decideVars, callVars, sysVars>>
SpecRead == InitM /\ [][NextRead]_vars

\* reset_map and update_pose called from two threads
NextRace == \/ PoseBegin(ThreadPoseInputs, RacePoseCalls) /\ UNCHANGED <<trackerVars, decideVars, callVars, sysVars>>
            \/ PoseLine /\ UNCHANGED <<trackerVars, decideVars, callVars, sysVars>>
            \/ ResetBegin /\ UNCHANGED <<trackerVars, decideVars, callVars, sysVars>>
            \/ ResetLine /\ UNCHANGED <<trackerVars, decideVars, callVars, sysVars>>
SpecRace == InitM /\ [][NextRace]_vars

\* The map owner with a status reader and the decision rule
NextAll == \/ UpdateCratersFrom(BatchesOf(AllCraters, AllBatch), AllLandmarks) /\ UNCHANGED <<trackerVars, decideVars, stepVars>>
           \/ UpdatePoseWithin(MapPoseInputs, AllPoseCalls) /\ UNCHANGED <<trackerVars, decideVars, stepVars>>
           \/ SetKinematics /\ UNCHANGED <<trackerVars, decideVars, stepVars>>
           \/ ResetMap /\ UNCHANGED <<trackerVars, decideVars, stepVars>>
           \/ GetStatus /\ UNCHANGED <<trackerVars, decideVars, callVars, sysVars>>
           \/ DecideOnMap /\ UNCHANGED <<trackerVars, mapVars, stepVars>>
SpecAll == InitM /\ [][NextAll]_vars

\* One track and its distance history
InitH == InitHistory /\ InitMap({5000}, {5000}) /\ InitDecide /\ InitThreads
         /\ memo = NoMemo /\ iou_call = NoIouCall /\ loop = NoLoop /\ InitSys /\ op = "init"
NextHistory == TrackObserve(HistoryObs) /\ UNCHANGED <<mapVars, decideVars, threadVars, memo, iou_call, loop, sysVars>>

\* compute_iou on every pair of boxes
InitI == InitTracker /\ InitMap({5000}, {5000}) /\ InitDecide /\ InitThreads
         /\ memo = NoMemo /\ probe = NoProbe /\ loop = NoLoop /\ InitSys /\ InitIou(IouCoord)
         /\ op = "init"
NextIou == IouCall /\ UNCHANGED <<trackerVars, mapVars, decideVars, threadVars, memo, probe, loop, sysVars>>
SpecIou == InitI /\ [][NextIou]_vars

\* The greedy loop of one update, one iteration at a time
InitG == InitGreedy(GreedyTracks, GreedyDets) /\ InitMap({5000}, {5000}) /\ InitDecide
         /\ InitThreads /\ memo = NoMemo /\ probe = NoProbe /\ iou_call = NoIouCall /\ InitSys
         /\ op = "init"
NextGreedy == \/ GreedyCommit(GreedyCommits) /\ UNCHANGED <<mapVars, decideVars, threadVars, memo, probe, iou_call, sysVars>>
              \/ GreedyBreak /\ UNCHANGED <<mapVars, decideVars, threadVars, memo, probe, iou_call, sysVars>>
SpecGreedy == InitG /\ [][NextGreedy]_vars
SpecHistory == InitH /\ [][NextHistory]_vars

\* decide called again and again
NextRepeat == DecideAgain(RepeatLandmarks) /\ UNCHANGED <<trackerVars, mapVars, threadVars, probe, iou_call, loop, sysVars>>
SpecRepeat == InitT /\ [][NextRepeat]_vars

\* Two trackers of one process
NextTwo == \/ UpdateWithin(IdsDetections, TwoDets, TwoCreated, TwoAge) /\ UNCHANGED <<mapVars, decideVars, stepVars>>
           \/ Reset /\ UNCHANGED <<mapVars, decideVars, stepVars>>
           \/ OtherUpdate(IdsDetections, TwoDets, TwoCreated, TwoAge) /\ UNCHANGED <<mapVars, decideVars, threadVars, callVars>>
           \/ OtherReset /\ UNCHANGED <<mapVars, decideVars, threadVars, callVars>>
SpecTwo == InitT /\ [][NextTwo]_vars

\* Tracker and map, one call after the other in any order
NextSeq == \/ UpdateWithin(SysDetections, SysDets, SysCreated, SysAge) /\ UNCHANGED <<mapVars, decideVars, stepVars>>
           \/ Reset /\ UNCHANGED <<mapVars, decideVars, stepVars>>
           \/ UpdateCratersFrom({VisibleOf(out)}, SysLandmarks) /\ UNCHANGED <<trackerVars, decideVars, stepVars>>
           \/ ResetMap /\ UNCHANGED <<trackerVars, decideVars, stepVars>>
SpecSeq == InitM /\ [][NextSeq]_vars

\* A telemetry tick (receive_telemetry: process_frame, update_pose,
\* update_craters of the cached tracks) and the reset_map handler
\* (handle_reset_map: mapper.reset_map, vision.reset_tracker) on two threads
NextTick == \/ /\ pcs.tick = "idle" /\ pcs' = [pcs EXCEPT !.tick = "pose"]
              /\ UpdateWithin(SysDetections, SysDets, SysCreated, SysAge)
              /\ UNCHANGED <<mapVars, decideVars, threadVars, callVars, other>>
            \/ /\ pcs.tick = "pose" /\ pcs' = [pcs EXCEPT !.tick = "fuse"]
              /\ UpdatePoseWithin({PoseInput(0, 0, 100)}, SysPoseCalls)
              /\ UNCHANGED <<trackerVars, decideVars, threadVars, callVars, other>>
            \/ /\ pcs.tick = "fuse" /\ pcs' = [pcs EXCEPT !.tick = "idle"]
              /\ UpdateCratersFrom({VisibleOf(out)}, SysLandmarks)
              /\ UNCHANGED <<trackerVars, decideVars, threadVars, callVars, other>>
            \/ /\ pcs.reset = "idle" /\ pcs' = [pcs EXCEPT !.reset = "tracker"]
              /\ ResetMap
              /\ UNCHANGED <<trackerVars, decideVars, threadVars, callVars, other>>
            \/ /\ pcs.reset = "tracker" /\ pcs' = [pcs EXCEPT !.reset = "idle"]
              /\ Reset
              /\ UNCHANGED <<mapVars, decideVars, threadVars, callVars, other>>
SpecTick == InitM /\ [][NextTick]_vars

\* The decision rule alone
NextDecide == DecideCall(DecideLandmarks) /\ UNCHANGED <<trackerVars, mapVars, stepVars>>
SpecDecide == InitT /\ [][NextDecide]_vars


(***************************************************************************)
(*                         Properties: ObjectTracker                       *)
(***************************************************************************)

\* the returned list has an entry for track id `id`
InOut(lst, id) == \E i \in DOMAIN lst : lst[i].track_id = id

\* C1: a Confirmed track that an update leaves unmatched, for the k-th
\* consecutive time, is still active and still in that update's output while
\* k < max_misses_to_lose; when k reaches max_misses_to_lose it is in neither
\* the output nor the active set, and a purged Track object never comes back.
C1_LostAfterMaxMisses ==
    [][op' = "update" =>
          /\ \A i \in DOMAIN tracks :
                (tracks[i].state = CONFIRMED /\ i \notin MatchedTrackIds(committed')) =>
                    LET k == hist[tracks[i].uid].run + 1
                    IN  IF k < max_misses_to_lose
                        THEN /\ tracks[i].uid \in Uids(tracks')
                             /\ InOut(out', tracks[i].track_id)
                        ELSE /\ tracks[i].uid \notin Uids(tracks')
                             /\ ~InOut(out', tracks[i].track_id)
          /\ \A p \in purged' : p.uid \notin Uids(tracks')]_vars

\* a Confirmed track has been purged by an update
C1_Witness == op = "update" /\ \E p \in purged : p.confirmed

\* C2: an active track is in the output exactly when it has been detected in
\* min_hits_to_confirm consecutive frames at some time, the creating frame
\* counting as frame 1 and a miss restarting the count from zero.
C2_ConfirmAfterMinHits ==
    \A i \in DOMAIN tracks :
        InOut(out, tracks[i].track_id) <=> hist[tracks[i].uid].best >= min_hits_to_confirm

\* a track first output in the frame that completes a streak restarted by a miss
C2_Witness ==
    /\ op = "update"
    /\ \E i \in DOMAIN tracks :
          /\ InOut(out, tracks[i].track_id)
          /\ hist[tracks[i].uid].streak = min_hits_to_confirm
          /\ hist[tracks[i].uid].best = min_hits_to_confirm
          /\ tracks[i].total_observations > min_hits_to_confirm

\* C6 (as stated): no track id is issued twice in the lifetime of the process,
\* for any sequence of update and reset calls.
C6_NeverIssuedTwice ==
    \A i, j \in DOMAIN issued : i /= j => issued[i] /= issued[j]

\* C6 (amended): the ids issued since the most recent reset (or since the
\* start when there was none) are pairwise distinct.
C6_DistinctSinceReset ==
    \A i, j \in (reset_at + 1)..Len(issued) : i /= j => issued[i] /= issued[j]

\* a track created after a reset that followed an earlier creation
C6_Witness == op = "update" /\ reset_at >= 1 /\ Len(issued) > reset_at

\* C7: without reset, the ids are strictly increasing in creation order
\* (hence pairwise distinct), purged tracks included.
C7_IdsIncrease ==
    \A i, j \in DOMAIN issued : i < j => issued[i] < issued[j]

\* a track created after an earlier one was purged
C7_Witness ==
    /\ op = "update" /\ purged /= {}
    /\ \E i \in DOMAIN tracks :
          /\ tracks[i].total_observations = 1 /\ tracks[i].misses = 0
          /\ \A p \in purged : p.uid < tracks[i].uid

\* C8: after every update no active track is Lost and every active track has
\* fewer than max_misses_to_lose consecutive misses.
C8_NoLostActive ==
    \A i \in DOMAIN tracks :
        tracks[i].state /= LOST /\ tracks[i].misses < max_misses_to_lose

\* a track that was never confirmed ran out of misses and was purged
C8_Witness == op = "update" /\ tracks = <<>> /\ \E p \in purged : ~p.confirmed

\* C9: every match an update commits pairs a track and a detection of equal
\* label (a detection without label counting as 'crater'), and a Track
\* object's label is the same after any step as before it.
C9_SameLabelMatches ==
    [][/\ op' = "update" =>
             \A i \in DOMAIN committed' :
                 tracks[committed'[i].t_idx].label = DetLabel(dets'[committed'[i].d_idx])
       /\ \A i \in DOMAIN tracks : \A j \in DOMAIN tracks' :
             tracks[i].uid = tracks'[j].uid => tracks'[j].label = tracks[i].label]_vars

\* a detection without label was matched to a 'crater' track while an 'alien'
\* detection of the same batch was left unmatched
C9_Witness ==
    /\ op = "update"
    /\ \E i \in DOMAIN committed : dets[committed[i].d_idx].label = NoLabel
    /\ \E d \in DOMAIN dets : dets[d].label = "alien" /\ d \notin MatchedDetIds(committed)
    /\ \E i \in DOMAIN tracks : tracks[i].label = "crater" /\ tracks[i].total_observations >= 2

\* The greedy reference: cm is a run of the highest-IoU-first matching over the
\* same-label pairs of trs x ds.
SameLabel(trs, ds, t, d) == trs[t].label = DetLabel(ds[d])
PairIou(trs, ds, t, d)   == compute_iou(trs[t].box, ds[d].box)
FreeBefore(cm, i, t, d)  == \A j \in 1..(i - 1) : cm[j].t_idx /= t /\ cm[j].d_idx /= d
IsGreedyRun(trs, ds, cm, thr) ==
    /\ \A i \in DOMAIN cm :
          /\ cm[i].t_idx \in DOMAIN trs /\ cm[i].d_idx \in DOMAIN ds
          /\ SameLabel(trs, ds, cm[i].t_idx, cm[i].d_idx)
          /\ FreeBefore(cm, i, cm[i].t_idx, cm[i].d_idx)
          /\ IouGE(PairIou(trs, ds, cm[i].t_idx, cm[i].d_idx), thr)
          /\ \A t \in DOMAIN trs : \A d \in DOMAIN ds :
                (SameLabel(trs, ds, t, d) /\ FreeBefore(cm, i, t, d)) =>
                    IouGE(PairIou(trs, ds, cm[i].t_idx, cm[i].d_idx), PairIou(trs, ds, t, d))
    /\ \A i, j \in DOMAIN cm :
          i < j => IouGE(PairIou(trs, ds, cm[i].t_idx, cm[i].d_idx),
                         PairIou(trs, ds, cm[j].t_idx, cm[j].d_idx))
    /\ \A t \in DOMAIN trs : \A d \in DOMAIN ds :
          (SameLabel(trs, ds, t, d) /\ FreeBefore(cm, Len(cm) + 1, t, d)) =>
              IouLT(PairIou(trs, ds, t, d), thr)

\* C10: the matches an update commits are a run of the greedy reference over
\* the same-label IoU of the track boxes at the start of the update: in
\* non-increasing IoU order, each at least iou_threshold, each the highest
\* among the pairs still free, no free same-label pair at or above the
\* threshold left at the end; and the matched tracks take their detection's box.
C10_GreedyReference ==
    [][op' = "update" =>
          /\ IsGreedyRun(tracks, dets', committed', iou_threshold)
          /\ \A i \in DOMAIN committed' : \A j \in DOMAIN tracks' :
                tracks'[j].uid = tracks[committed'[i].t_idx].uid =>
                    tracks'[j].box = dets'[committed'[i].d_idx].box]_vars

\* two matches committed in one update, the second with a smaller IoU
C10_Witness ==
    /\ op = "update" /\ Len(committed) = 2
    /\ IouLT(committed[2].max_iou, committed[1].max_iou)

\* C11: the list an update returns has one entry per active track that is
\* Confirmed after the update, in list order, with that track's id and label
\* (matched in this update or not), and no entry for any other track.
C11_OutputIsConfirmed ==
    op = "update" =>
        LET conf == {i \in DOMAIN tracks : tracks[i].state = CONFIRMED}
        IN  /\ Len(out) = Cardinality(conf)
            /\ \A i \in conf :
                  \E j \in DOMAIN out :
                      /\ out[j].track_id = tracks[i].track_id
                      /\ out[j].label = tracks[i].label
                      /\ j = Cardinality({k \in conf : k <= i})
            /\ \A i \in DOMAIN tracks :
                  tracks[i].state /= CONFIRMED => ~InOut(out, tracks[i].track_id)

\* a Confirmed track that the update did not match is in its output
C11_Witness ==
    /\ op = "update"
    /\ \E i \in DOMAIN tracks :
          /\ tracks[i].state = CONFIRMED /\ tracks[i].misses > 0
          /\ InOut(out, tracks[i].track_id)

\* C19: reset() leaves the active set empty and restarts the id numbering:
\* the update that follows it numbers the tracks it creates 1, 2, ... and,
\* with min_hits_to_confirm above 1, returns an empty list.
C19_TrackerReset ==
    [][/\ op' = "reset" => (tracks' = <<>> /\ id_counter' = 0)
       /\ (op = "reset" /\ op' = "update") =>
             /\ \A i \in DOMAIN tracks' : tracks'[i].track_id = i
             /\ min_hits_to_confirm > 1 => out' = <<>>]_vars

\* the first track created after a reset that followed earlier creations has
\* id 1 and is not reported
C19_Witness ==
    /\ op = "update"
    /\ reset_at >= 2 /\ Len(issued) = reset_at + 1
    /\ issued[Len(issued)] = 1
    /\ Len(tracks) = 1 /\ tracks[1].track_id = 1
    /\ out = <<>>

(***************************************************************************)
(*                         Properties: MapManagerLaptop                    *)
(***************************************************************************)

\* C3: a landmark whose observation_count has reached MAX_OBSERVATIONS is
\* locked, and every step other than a map reset (a fuse call with its own
\* track id, another one or none, from any pose; a pose update) leaves it in
\* place in the list with the same x and y.
C3_LockedNeverMoves ==
    [][\A i \in DOMAIN craters :
          craters[i].observation_count >= MAX_OBSERVATIONS =>
              /\ craters[i].locked
              /\ op' /= "reset_map" =>
                    /\ i \in DOMAIN craters'
                    /\ craters'[i].id = craters[i].id
                    /\ craters'[i].x = craters[i].x
                    /\ craters'[i].y = craters[i].y]_vars

\* a fuse call made from another pose, next to a locked landmark, has created
\* a second landmark of the same label within the merge radius
C3_Witness ==
    /\ op = "update_craters"
    /\ \E i, j \in DOMAIN craters :
          /\ i < j
          /\ craters[i].observation_count >= MAX_OBSERVATIONS
          /\ craters[j].label = craters[i].label
          /\ craters[j].y /= craters[i].y
          /\ WithinMergeRadius(craters[i], craters[j].x, craters[j].y)

\* C4: in every reachable state of the pose owner (the initial state for any
\* configured size, after any update_pose, set_kinematics and reset_map) the
\* pose is inside the map: 0 <= x <= width_m and 0 <= y <= height_m.
C4_PoseInBounds ==
    /\ 0 <= x /\ x <= width_m
    /\ 0 <= y /\ y <= height_m

\* ---- one fuse: an update_craters step whose list has a single entry ----
\* (the step leaves the pose as it was, so the projection can be taken from
\* the state before or after it)
SingleFuse    == op' = "update_craters" /\ Len(last_visible') = 1
Fused         == last_visible'[1]
FusedPoint    == Project(Pose, Fused, IMG_WIDTH)
\* the landmarks associated with the fused track's id
OwnLandmarks  == {i \in DOMAIN craters :
                     Fused.track_id /= NoTrackId /\ craters[i].track_id = Fused.track_id}
\* the unlocked landmarks of the fused track's label within the merge radius
NearLandmarks == {i \in DOMAIN craters :
                     /\ craters[i].label = DetLabel(Fused)
                     /\ ~craters[i].locked
                     /\ WithinMergeRadius(craters[i], FusedPoint.gx, FusedPoint.gy)}
Mix(old, new) == (7 * old + 3 * new) \div 10

\* C12: fusing a track whose id is associated with a locked landmark leaves
\* the landmark list and the landmark id counter exactly as they were.
C12_LockedFuseIsNoOp ==
    [][(SingleFuse /\ \E i \in OwnLandmarks : craters[i].locked) =>
          /\ craters' = craters
          /\ crater_id_counter' = crater_id_counter]_vars

\* track 1 was fused again after its landmark got locked (the second landmark
\* can only have been created once the first was locked)
C12_Witness ==
    /\ op = "update_craters" /\ Len(last_visible) = 1
    /\ Len(craters) >= 2
    /\ craters[1].locked /\ craters[1].track_id = last_visible[1].track_id

\* C13: fusing a track whose id is associated with an unlocked landmark sets
\* that landmark's position to 0.7 old + 0.3 projected, adds 1 to its
\* observation_count, locks it exactly when the new count is >= MAX_OBSERVATIONS,
\* changes no other landmark and creates none.
C13_TrackIdMerge ==
    [][(SingleFuse /\ \E i \in OwnLandmarks : ~craters[i].locked) =>
          \E i \in OwnLandmarks :
              /\ craters' = [craters EXCEPT ![i] =
                    [@ EXCEPT !.x = Mix(@, FusedPoint.gx),
                              !.y = Mix(@, FusedPoint.gy),
                              !.observation_count = @ + 1,
                              !.locked = (craters[i].observation_count + 1
                                            >= MAX_OBSERVATIONS)]]
              /\ crater_id_counter' = crater_id_counter]_vars

\* the tenth observation of track 1, made from a moved pose, has locked its
\* landmark between the two projected points
C13_Witness ==
    /\ op = "update_craters" /\ Len(last_visible) = 1
    /\ \E i \in DOMAIN craters :
          /\ craters[i].track_id = last_visible[1].track_id
          /\ craters[i].track_id /= NoTrackId
          /\ craters[i].observation_count = MAX_OBSERVATIONS /\ craters[i].locked
          /\ craters[i].y /= Project(Pose, last_visible[1], IMG_WIDTH).gy
          /\ craters[i].y /= Project(HomePose(width_m), last_visible[1], IMG_WIDTH).gy

C15_CreateLandmark ==
    [][(SingleFuse /\ OwnLandmarks = {} /\ NearLandmarks = {}) =>
          /\ Len(craters') = Len(craters) + 1
          /\ SubSeq(craters', 1, Len(craters)) = craters
          /\ LET n == craters'[Len(craters')]
             IN  /\ n.x = FusedPoint.gx /\ n.y = FusedPoint.gy
                 /\ n.observation_count = 1 /\ ~n.locked
                 /\ n.track_id = Fused.track_id
                 /\ n.label = DetLabel(Fused)
                 /\ \A i \in DOMAIN craters : craters[i].id /= n.id]_vars

\* a track without id, seen next to a locked landmark, has created a landmark
\* without source track
C15_Witness ==
    /\ op = "update_craters" /\ Len(last_visible) = 1
    /\ last_visible[1].track_id = NoTrackId
    /\ Len(craters) >= 2
    /\ craters[1].locked
    /\ craters[Len(craters)].track_id = NoTrackId
    /\ craters[Len(craters)].observation_count = 1

\* C16: while the pose is the start pose, an object at a fixed projected
\* position and of a fixed label is represented by at most one landmark.
C16_Deduplicated ==
    pose_calls = 0 =>
        \A i, j \in DOMAIN craters :
            (i /= j /\ craters[i].label = craters[j].label) =>
                (craters[i].x /= craters[j].x \/ craters[i].y /= craters[j].y)

\* C17: no operation other than reset_map removes a landmark: across
\* update_craters, update_pose and set_kinematics every landmark stays in the
\* list with its id, label and radius, and its observation_count does not
\* decrease.
C17_LandmarksPersist ==
    [][op' /= "reset_map" =>
          /\ Len(craters') >= Len(craters)
          /\ \A i \in DOMAIN craters :
                /\ craters'[i].id = craters[i].id
                /\ craters'[i].label = craters[i].label
                /\ craters'[i].radius = craters[i].radius
                /\ craters'[i].observation_count >= craters[i].observation_count]_vars

\* a locked landmark and a younger one have both been kept across a change of
\* the kinematic mode
C17_Witness ==
    /\ op = "set_kinematics" /\ kinematics = "ugv"
    /\ Len(craters) = 2
    /\ craters[1].locked /\ craters[1].id = 0 /\ craters[2].id = 1

\* C18: reset_map() empties the landmark list, restarts the landmark ids at 0
\* and puts the pose at the start pose (x = width_m - 0.2, y = 0.2,
\* theta = pi/2); the kinematic mode and the map dimensions are kept.
C18_ResetMap ==
    [][op' = "reset_map" =>
          /\ craters' = <<>>
          /\ crater_id_counter' = 0
          /\ x' = width_m - START_MARGIN
          /\ y' = START_MARGIN
          /\ theta' = HALF_PI_MRAD
          /\ kinematics' = kinematics
          /\ width_m' = width_m /\ height_m' = height_m]_vars

\* a reset made after landmarks were fused and the mode was changed
C18_Witness ==
    /\ op = "reset_map"
    /\ last_visible /= <<>>
    /\ kinematics = "ugv"
    /\ craters = <<>> /\ crater_id_counter = 0
    /\ x = width_m - START_MARGIN /\ y = START_MARGIN /\ theta = HALF_PI_MRAD

\* C20: set_kinematics(mode) changes only the kinematic mode, to `mode` when
\* it is 'jetracer' or 'ugv'; any other mode changes nothing at all.
C20_SetKinematics ==
    [][op' = "set_kinematics" =>
          /\ UNCHANGED <<x, y, theta, craters, crater_id_counter, width_m, height_m>>
          /\ kinematics' = IF mode_arg' \in {"jetracer", "ugv"}
                           THEN mode_arg' ELSE kinematics]_vars

\* an unknown mode was passed while the map had a landmark and the mode was
\* not the default one
C20_Witness ==
    /\ op = "set_kinematics"
    /\ mode_arg \notin {"jetracer", "ugv"}
    /\ kinematics = "ugv"
    /\ craters /= <<>>
    /\ pose_calls > 0

\* ---- one update_pose step and what it was called with ----
PoseStep  == op' = "update_pose"
Speed     == Scale(pose_arg'.throttle, MAX_SPEED_MPS, 1000)
Turned    == theta' - theta

\* C21: in 'ugv' mode the heading follows the sign of the steering: positive
\* steering increases theta, negative steering decreases it, zero steering
\* leaves it unchanged, whatever the throttle.
C21_UgvTurnFollowsSteering ==
    [][(PoseStep /\ kinematics = "ugv") =>
          /\ pose_arg'.steering > 0 => Turned > 0
          /\ pose_arg'.steering < 0 => Turned < 0
          /\ pose_arg'.steering = 0 => Turned = 0]_vars

\* C22: in 'jetracer' mode theta is unchanged while |v| <= 0.01 m/s; above
\* that the turn rate is v * steering / 1.43 for steering > 0 and
\* v * steering / 1.085 for steering <= 0, so left and right turns have
\* opposite signs and different magnitudes.
C22_AckermannTurn ==
    [][(PoseStep /\ kinematics = "jetracer") =>
          LET s == pose_arg'.steering
              w == IF s > 0 THEN Scale(Speed * s, 1, TURN_RADIUS_LEFT)
                            ELSE Scale(Speed * s, 1, TURN_RADIUS_RIGHT)
          IN  /\ Abs(Speed) <= MIN_TURN_SPEED => Turned = 0
              /\ Abs(Speed) > MIN_TURN_SPEED =>
                    /\ Turned = Scale(w, pose_arg'.dt, 1000)
                    /\ (s > 0 /\ Speed > 0) => Turned > 0
                    /\ (s < 0 /\ Speed > 0) => Turned < 0]_vars

\* a crawl below the turning speed with the wheel turned, after the heading
\* had been changed by a turn at speed
C22_Witness ==
    /\ op = "update_pose" /\ kinematics = "jetracer"
    /\ pose_arg.steering /= 0
    /\ Scale(pose_arg.throttle, MAX_SPEED_MPS, 1000) \in 1..MIN_TURN_SPEED
    /\ theta /= HALF_PI_MRAD

\* C23: a get_status that runs while an update_pose is in progress returns
\* the pose before that update or the pose after it.
C23_ConsistentSnapshot ==
    status.at \notin {"none", "idle"} =>
        LET got == [x |-> status.x, y |-> status.y, theta |-> status.theta]
        IN  got = status.before \/ got = status.after

\* C24: when a reset_map and an update_pose that overlapped have both
\* returned, pose, landmark list and landmark id counter are what the two
\* calls leave when run one after the other, in one order or the other.
C24_SerializableReset ==
    (upd_pc = "idle" /\ rst_pc = "idle" /\ Len(epoch) = 2 /\ epoch[1] /= epoch[2]) =>
        /\ craters = <<>> /\ crater_id_counter = 0
        /\ \/ Pose = HomePose(width_m)
           \/ Pose = PoseAfter(HomePose(width_m), width_m, height_m, kinematics,
                               pose_arg.throttle, pose_arg.steering, pose_arg.dt)

(***************************************************************************)
(*                         Properties: DecisionSystem                      *)
(***************************************************************************)

\* some landmark of the last call's list lies in sector k and is closer to the
\* pose than its radius plus the safety margin
BlockedIn(k) ==
    \E i \in DOMAIN dec_craters :
        /\ Sector(dec_pose, dec_craters[i]) = k
        /\ dec_craters[i].radius + SAFE_MARGIN > 0
        /\ Dist2(dec_pose, dec_craters[i]) <
               (dec_craters[i].radius + SAFE_MARGIN) * (dec_craters[i].radius + SAFE_MARGIN)

\* C5: decide returns go_straight when no front landmark is blocking,
\* whatever the sides; otherwise turn_left when no left landmark is blocking,
\* otherwise turn_right when no right landmark is blocking, otherwise stop.
C5_DecisionRule ==
    op = "decide" =>
        decision = IF ~BlockedIn("front") THEN "go_straight"
                   ELSE IF ~BlockedIn("left") THEN "turn_left"
                   ELSE IF ~BlockedIn("right") THEN "turn_right"
                   ELSE "stop"

\* front and left blocked, right clear: the rover turns right
C5_Witness ==
    /\ op = "decide" /\ decision = "turn_right"
    /\ BlockedIn("front") /\ BlockedIn("left") /\ ~BlockedIn("right")

C25_PoseSingleWriter ==
    [][op' \notin {"update_pose", "reset_map"} => UNCHANGED <<x, y, theta>>]_vars

\* the mode was changed after the rover had moved, seen a landmark, been read
\* and asked for a decision
C25_Witness ==
    /\ op = "set_kinematics" /\ kinematics = "ugv"
    /\ pose_calls > 0 /\ y /= HomePose(width_m).y
    /\ craters /= <<>>
    /\ status.at /= "none"
    /\ decision /= "none"

\* C28: a track's distance history holds the distances of its most recent
\* min(total_observations, 10) detections in arrival order, so its length is
\* between 1 and 10, and the distance it reports is the mean of those values.
C28_DepthHistory ==
    op = "track_update" =>
        LET t == tracks[1]
            n == Len(probe.seen)
            k == Min(n, 10)
            recent == SubSeq(probe.seen, n - k + 1, n)
        IN  /\ t.total_observations = n
            /\ t.depth_history = recent
            /\ Len(t.depth_history) \in 1..10
            /\ probe.reported[2] = k
            /\ probe.reported[1] = SeqSum(recent)

\* twelve detections, the first two at 0.9 m and already evicted, the others
\* at 0.7 m except the last
C28_Witness ==
    /\ op = "track_update"
    /\ Len(probe.seen) = 12
    /\ probe.seen[1] = 900 /\ probe.seen[2] = 900 /\ probe.seen[12] = 900
    /\ \A i \in 3..11 : probe.seen[i] = 700
    /\ probe.reported = <<7200, 10>>

\* C29: every landmark has 1 <= observation_count <= MAX_OBSERVATIONS and is
\* locked exactly when its observation_count has reached MAX_OBSERVATIONS.
C29_CountAndLock ==
    \A i \in DOMAIN craters :
        /\ craters[i].observation_count \in 1..MAX_OBSERVATIONS
        /\ craters[i].locked = (craters[i].observation_count >= MAX_OBSERVATIONS)

\* a landmark at the limit next to one that was fused a few times
C29_Witness ==
    /\ Len(craters) = 2
    /\ craters[1].observation_count = MAX_OBSERVATIONS /\ craters[1].locked
    /\ craters[2].observation_count = MAX_OBSERVATIONS - 1 /\ ~craters[2].locked
    /\ op = "update_craters"

\* ---- the two boxes of a compute_iou call, and fractions as numbers ----
BoxArea(b)   == (b[3] - b[1]) * (b[4] - b[2])
Overlap(a, b) ==
    Max(0, Min(a[3], b[3]) - Max(a[1], b[1])) * Max(0, Min(a[4], b[4]) - Max(a[2], b[2]))
IouSame(p, q) == p[1] * q[2] = q[1] * p[2]
IouIsZero(p)  == p[1] = 0 /\ p[2] > 0
IouIsOne(p)   == p[1] = p[2] /\ p[2] > 0
IouLaws(identical) ==
    LET a == iou_call.box1
        b == iou_call.box2
        r == iou_call.ab
    IN  /\ IouSame(r, iou_call.ba)
        /\ r[2] > 0 /\ 0 <= r[1] /\ r[1] <= r[2]
        /\ identical => IouIsOne(r)
        /\ Overlap(a, b) = 0 => IouIsZero(r)
        /\ BoxArea(a) + BoxArea(b) - Overlap(a, b) <= 0 => IouIsZero(r)

\* C30 (as stated): compute_iou is symmetric, lies in [0, 1], is 1 for two
\* identical boxes, 0 for disjoint boxes and 0 whenever the union area is <= 0.
C30_IouLaws ==
    iou_call.done => IouLaws(iou_call.box1 = iou_call.box2)

\* C30 (amended): the same, with 1 for two identical boxes of positive area;
\* two identical empty boxes have union area 0 and give 0.
C30_IouLawsPositive ==
    iou_call.done =>
        /\ IouLaws(iou_call.box1 = iou_call.box2 /\ BoxArea(iou_call.box1) > 0)
        /\ (iou_call.box1 = iou_call.box2 /\ BoxArea(iou_call.box1) = 0)
              => IouIsZero(iou_call.ab)

\* two different boxes that overlap in part: IoU 1/3
C30_Witness ==
    /\ iou_call.done
    /\ iou_call.box1 = <<0, 0, 2, 1>> /\ iou_call.box2 = <<1, 0, 2, 2>>
    /\ iou_call.ab = <<1, 3>>

\* C27: for every iou_threshold >= 0 the greedy loop of an update commits at
\* most min(number of tracks, number of detections) matches.
C27_MatchesBounded ==
    loop.pc /= "none" => loop.commits <= Min(Len(tracks), Len(loop.ds))

(***************************************************************************)
(*                 Properties: the tracker's bookkeeping                   *)
(***************************************************************************)

\* C31: an update leaves an active track it did not match with
\* consecutive_hits 0 and one more consecutive miss, its box, history and
\* total_observations as they were; a track it matched has one more
\* consecutive hit and one more observation and no miss; and after the update
\* every active track has exactly one of consecutive_hits, consecutive_misses
\* equal to 0.
C31_HitsAndMisses ==
    [][op' = "update" =>
          /\ \A i \in DOMAIN tracks : \A j \in DOMAIN tracks' :
                tracks'[j].uid = tracks[i].uid =>
                    IF i \in MatchedTrackIds(committed')
                    THEN /\ tracks'[j].hits = tracks[i].hits + 1
                         /\ tracks'[j].total_observations = tracks[i].total_observations + 1
                         /\ tracks'[j].misses = 0
                    ELSE /\ tracks'[j].hits = 0
                         /\ tracks'[j].misses = tracks[i].misses + 1
                         /\ tracks'[j].box = tracks[i].box
                         /\ tracks'[j].depth_history = tracks[i].depth_history
                         /\ tracks'[j].total_observations = tracks[i].total_observations
          /\ \A j \in DOMAIN tracks' :
                (tracks'[j].hits = 0) /= (tracks'[j].misses = 0)]_vars

\* one update matched a track for the second time and left another unmatched
C31_Witness ==
    /\ op = "update" /\ Len(committed) = 1
    /\ \E i, j \in DOMAIN tracks :
          /\ tracks[i].hits = 2 /\ tracks[i].misses = 0 /\ tracks[i].total_observations = 2
          /\ tracks[j].hits = 0 /\ tracks[j].misses = 1 /\ tracks[j].total_observations = 1

\* C32: a track's state only moves forward: a Confirmed track that is still
\* active after a step is still Confirmed and, after an update, in its output
\* (whether matched or not); a Tentative track is Tentative or Confirmed after
\* it; and a Track object that left the active set never returns.
C32_StateMovesForward ==
    [][/\ \A i \in DOMAIN tracks : \A j \in DOMAIN tracks' :
             tracks'[j].uid = tracks[i].uid =>
                 /\ tracks'[j].state \in {TENTATIVE, CONFIRMED}
                 /\ tracks[i].state = CONFIRMED =>
                       /\ tracks'[j].state = CONFIRMED
                       /\ op' = "update" => InOut(out', tracks'[j].track_id)
       /\ \A p \in purged : p.uid \notin Uids(tracks')]_vars

\* a Confirmed track whose hit streak was broken two updates ago is in the output
C32_Witness ==
    /\ op = "update"
    /\ \E i \in DOMAIN tracks :
          /\ tracks[i].state = CONFIRMED /\ tracks[i].hits = 0 /\ tracks[i].misses = 2
          /\ InOut(out, tracks[i].track_id)

\* C33: in one update every detection of the batch is consumed exactly once:
\* no detection and no track is in two matches, a matched detection's box is
\* the box of the one track it matched, the k-th unmatched detection is the
\* k-th new track (Tentative, 1 hit, 0 misses), and the active set afterwards
\* has (tracks before) + (unmatched detections) - (tracks lost in this update)
\* members.
C33_EachDetectionOnce ==
    [][op' = "update" =>
          LET cm        == committed'
              unmatched == DOMAIN dets' \ MatchedDetIds(cm)
              new       == SelectSeq(tracks', LAMBDA t : t.uid \notin Uids(tracks))
              lost      == Cardinality(purged') - Cardinality(purged)
          IN  /\ \A a, b \in DOMAIN cm :
                    a /= b => cm[a].t_idx /= cm[b].t_idx /\ cm[a].d_idx /= cm[b].d_idx
              /\ \A a \in DOMAIN cm :
                    /\ cm[a].t_idx \in DOMAIN tracks /\ cm[a].d_idx \in DOMAIN dets'
                    /\ \E j \in DOMAIN tracks' :
                          /\ tracks'[j].uid = tracks[cm[a].t_idx].uid
                          /\ tracks'[j].box = dets'[cm[a].d_idx].box
                          /\ tracks'[j].total_observations =
                                 tracks[cm[a].t_idx].total_observations + 1
              /\ Len(new) = Cardinality(unmatched)
              /\ \A k \in DOMAIN new :
                    /\ new[k].state = TENTATIVE /\ new[k].hits = 1 /\ new[k].misses = 0
                    /\ new[k].total_observations = 1
                    /\ \E d \in unmatched :
                          /\ Cardinality({e \in unmatched : e < d}) = k - 1
                          /\ new[k].box = dets'[d].box
                          /\ new[k].label = DetLabel(dets'[d])
              /\ Len(tracks') = Len(tracks) + Cardinality(unmatched) - lost]_vars

\* an update of two detections: the first spawned a track, the second matched
\* the track that was there
C33_Witness ==
    /\ op = "update" /\ Len(dets) = 2 /\ Len(tracks) = 2
    /\ committed /= <<>> /\ MatchedDetIds(committed) = {2}
    /\ tracks[1].total_observations = 2 /\ tracks[2].total_observations = 1

\* C34: among the pairs still free that tie with the committed pair for the
\* highest IoU, the committed pair has the lowest track index in the active
\* list and, among those of that track, the lowest detection index in the batch.
C34_TieBreak ==
    [][op' = "update" =>
          LET m  == IouMatrix(tracks, dets')
              nD == Len(dets')
              cm == committed'
          IN  \A i \in DOMAIN cm : \A t \in DOMAIN tracks : \A d \in DOMAIN dets' :
                  LET e == m[(t - 1) * nD + d]
                  IN  (/\ FreeBefore(cm, i, t, d)
                       /\ ~IouLT(e, cm[i].max_iou) /\ ~IouLT(cm[i].max_iou, e)) =>
                          \/ cm[i].t_idx < t
                          \/ cm[i].t_idx = t /\ cm[i].d_idx <= d]_vars

\* two tracks with the same box and one detection on it: the detection went
\* to the older track, the younger one was missed
C34_Witness ==
    /\ op = "update" /\ Len(dets) = 1 /\ Len(tracks) = 2
    /\ tracks[1].label = tracks[2].label
    /\ tracks[1].box = dets[1].box /\ tracks[2].box = dets[1].box
    /\ MatchedTrackIds(committed) = {1}
    /\ tracks[1].total_observations = 2 /\ tracks[2].misses = 1

(***************************************************************************)
(*                 Properties: the map's bookkeeping                       *)
(***************************************************************************)

\* C35: every observation fused into a landmark counts toward locking: a fuse
\* that blends a track into a landmark, by track id or by proximity, raises
\* that landmark's observation_count by one.
C35_EveryFuseCounts ==
    [][SingleFuse =>
          \A i \in DOMAIN craters :
              (craters'[i].x /= craters[i].x \/ craters'[i].y /= craters[i].y) =>
                  craters'[i].observation_count = craters[i].observation_count + 1]_vars

(***************************************************************************)
(*                 Properties: the sectors of decide                       *)
(***************************************************************************)

\* the landmarks of the last call's list that are closer to the pose than
\* radius + safe_margin, by bearing b relative to the heading
NearAt(i) ==
    LET c == dec_craters[i]
        r == c.radius + SAFE_MARGIN
    IN  r > 0 /\ Dist2(dec_pose, c) < r * r
NearFront == \E i \in DOMAIN dec_craters :
                 NearAt(i) /\ Abs(Bearing(dec_pose, dec_craters[i])) < 350
NearLeft  == \E i \in DOMAIN dec_craters :
                 /\ NearAt(i) /\ Abs(Bearing(dec_pose, dec_craters[i])) >= 350
                 /\ Bearing(dec_pose, dec_craters[i]) > 0
NearRight == \E i \in DOMAIN dec_craters :
                 /\ NearAt(i) /\ Abs(Bearing(dec_pose, dec_craters[i])) >= 350
                 /\ Bearing(dec_pose, dec_craters[i]) <= 0

\* C36: decide acts as if every landmark were in exactly one sector by its
\* heading-relative bearing - front iff |bearing| < 0.35, otherwise left iff
\* bearing > 0, otherwise right (so +0.35 is left and -0.35 is right) - and
\* blocking iff its distance is strictly less than radius + safe_margin.
C36_SectorsByBearing ==
    op = "decide" =>
        decision = IF ~NearFront THEN "go_straight"
                   ELSE IF ~NearLeft THEN "turn_left"
                   ELSE IF ~NearRight THEN "turn_right"
                   ELSE "stop"

\* a landmark closer than radius + safe_margin at bearing +0.35 exactly does
\* not block the front: the rover goes straight
C36_Witness ==
    /\ op = "decide" /\ decision = "go_straight"
    /\ \E i \in DOMAIN dec_craters :
          /\ Bearing(dec_pose, dec_craters[i]) = FRONT_HALF_ANGLE /\ NearAt(i)

(***************************************************************************)
(*                 Properties: two trackers, one id counter                *)
(***************************************************************************)

\* C37: the tracks in each tracker's active set have pairwise distinct ids,
\* for any interleaving of update and reset calls on two trackers of the same
\* process.
C37_DistinctIdsPerTracker ==
    /\ \A i, j \in DOMAIN tracks : i /= j => tracks[i].track_id /= tracks[j].track_id
    /\ \A i, j \in DOMAIN other : i /= j => other[i].track_id /= other[j].track_id

(***************************************************************************)
(*                 Properties: landmarks and track ids                     *)
(***************************************************************************)

\* C38: no two landmarks of the map carry the same track id (landmarks
\* without track id aside), after any sequence of fuse calls with any track
\* ids, pose updates and map resets.
C38_OneLandmarkPerTrackId ==
    \A i, j \in DOMAIN craters :
        (i /= j /\ craters[i].track_id /= NoTrackId) =>
            craters[i].track_id /= craters[j].track_id

\* the track of a locked landmark was fused again while the map holds a second
\* landmark, of another track
C38_Witness ==
    /\ op = "update_craters" /\ Len(last_visible) = 1
    /\ Len(craters) = 2
    /\ craters[1].locked /\ craters[1].track_id = last_visible[1].track_id
    /\ craters[2].track_id \notin {NoTrackId, craters[1].track_id}

\* C39: in every sequential run of tracker.update, tracker.reset, map fuse
\* and map reset, a fuse that finds a landmark by the fused track's id and
\* moves it, moves a landmark of that track's label.
C39_IdBlendKeepsLabel ==
    [][SingleFuse =>
          \A i \in OwnLandmarks :
              (craters'[i].x /= craters[i].x \/ craters'[i].y /= craters[i].y) =>
                  craters[i].label = DetLabel(Fused)]_vars

\* C40: when the reset_map handler has finished (its tracker reset was its
\* last step), no landmark of the map carries a track id: the ids issued so
\* far were all issued before the tracker reset.
C40_ResetHandlerAtomic ==
    (op = "reset" /\ pcs.reset = "idle") =>
        \A i \in DOMAIN craters : craters[i].track_id = NoTrackId

====
